---- MODULE Spec2Model ----
(***************************************************************************)
(* A model of the news crawling and analysis core of aiagentcrawl:         *)
(*   - NewsAnalysisAgent._parse_keyword_operators   (SpecParse)            *)
(*   - NewsAnalysisAgent.analyze_news_async and its OR path  (Spec)        *)
(*   - PlaywrightNewsScraper.scrape_all under the coordinator's timeout    *)
(*     and cleanup, one step per await point of every task  (SpecCrawl)    *)
(*   - extract_article and extract_text_by_selectors of the Playwright     *)
(*     scrapers  (SpecArticle)                                             *)
(*   - DataAnalyzerTool and the tools analyze_sentiment and                *)
(*     analyze_news_trend  (SpecScorer)                                    *)
(*   - the calculator tools add_tool, multiply_tool and divide_tool        *)
(*     (SpecTools)                                                         *)
(*   - the Selenium path of analyze_news_async: the search thread of       *)
(*     NewsScraperTool against the timeout and cleanup()  (SpecSelenium)   *)
(*                                                                         *)
(* Python strings are sequences of one-character strings.  The Korean      *)
(* source names of the code are written in Latin letters: "Neibeo" for the *)
(* canonical Naver name, "Gugeul" for the canonical Google name, "Daeum"   *)
(* for the Korean spelling of Daum.                                        *)
(***************************************************************************)
EXTENDS Integers, Sequences, FiniteSets, TLC

(***************************************************************************)
(* Bounds of the model.                                                    *)
(***************************************************************************)
\* longest keyword the exhaustive enumeration of SpecParse draws
MaxKwLen == 3
\* longest sources list a request carries
MaxSources == 2
\* most articles (or URLs) one crawl yields
MaxCrawl == 2
\* most articles the crawl of one OR sub-keyword yields
MaxSubCrawl == 1
\* most URLs the searches of one crawl session find, all sources together
MaxUrls == 2
\* largest max_concurrent a direct extract_articles_parallel call passes
MaxConc == 2
\* most selectors in a selector list of extract_text_by_selectors
MaxSelectors == 2
\* most comments passed to analyze_trend or analyze_news_trend
MaxComments == 2

(***************************************************************************)
(* Strings.                                                                *)
(***************************************************************************)
\* the characters the enumerated keywords are made of
Alphabet == {"a", "O", "r", "|", " "}

LowerLetters ==
    <<"a","b","c","d","e","f","g","h","i","j","k","l","m",
      "n","o","p","q","r","s","t","u","v","w","x","y","z">>

UpperLetters ==
    <<"A","B","C","D","E","F","G","H","I","J","K","L","M",
      "N","O","P","Q","R","S","T","U","V","W","X","Y","Z">>

\* str.upper() on one character, as re.IGNORECASE compares
Upper(c) ==
    IF \E i \in 1..Len(LowerLetters) : LowerLetters[i] = c
    THEN UpperLetters[CHOOSE i \in 1..Len(LowerLetters) : LowerLetters[i] = c]
    ELSE c

\* \s of the regular expressions and the characters str.strip() removes
IsSpace(c) == c \in {" ", "\t", "\n"}

\* \w of the regular expressions: what \b separates from the rest
IsWordChar(c) ==
    \/ \E i \in 1..Len(UpperLetters) : UpperLetters[i] = Upper(c)
    \/ c \in {"0", "1", "2", "3", "4", "5", "6", "7", "8", "9", "_"}

\* s[i..j], empty when i > j
Slice(s, i, j) == IF i > j THEN <<>> ELSE SubSeq(s, i, j)

\* the literal w stands in s at index i, letters compared without case
MatchesAt(s, i, w) ==
    /\ i >= 1
    /\ i + Len(w) - 1 <= Len(s)
    /\ \A k \in 1..Len(w) : Upper(s[i + k - 1]) = Upper(w[k])

RECURSIVE LStrip(_)
LStrip(s) == IF s # <<>> /\ IsSpace(Head(s)) THEN LStrip(Tail(s)) ELSE s

RECURSIVE RStrip(_)
RStrip(s) ==
    IF s # <<>> /\ IsSpace(s[Len(s)]) THEN RStrip(Slice(s, 1, Len(s) - 1)) ELSE s

\* str.strip()
Strip(s) == RStrip(LStrip(s))

\* all strings over Alphabet of length at most n
RECURSIVE StringsUpTo(_)
StringsUpTo(n) ==
    IF n = 0 THEN {<<>>}
    ELSE LET shorter == StringsUpTo(n - 1) IN
         shorter \cup {Append(s, c) : s \in {t \in shorter : Len(t) = n - 1},
                                      c \in Alphabet}

(***************************************************************************)
(* common/utils.py: validate_input                                         *)
(***************************************************************************)
\* \b at the gap before index i of s
WordBoundary(s, i) ==
    LET before == i > 1 /\ i - 1 <= Len(s) /\ IsWordChar(s[i - 1])
        after  == i >= 1 /\ i <= Len(s) /\ IsWordChar(s[i])
    IN  before # after

\* \bW\b matches in s starting at index i
WordAt(s, i, w) ==
    MatchesAt(s, i, w) /\ WordBoundary(s, i) /\ WordBoundary(s, i + Len(w))

SqlWords ==
    {<<"S","E","L","E","C","T">>, <<"I","N","S","E","R","T">>,
     <<"U","P","D","A","T","E">>, <<"D","E","L","E","T","E">>,
     <<"D","R","O","P">>, <<"C","R","E","A","T","E">>,
     <<"A","L","T","E","R">>, <<"E","X","E","C">>,
     <<"E","X","E","C","U","T","E">>}

SqlTokens == {<<"-","-">>, <<";">>, <<"/","*">>, <<"*","/">>}

\* r"(\bW\b.*=.*)": the word W, then "=" later on the same line
WordThenEquals(s, w) ==
    \E i \in 1..Len(s) :
        /\ WordAt(s, i, w)
        /\ \E j \in (i + Len(w))..Len(s) :
              /\ s[j] = "="
              /\ \A k \in (i + Len(w))..j : s[k] # "\n"

\* one of the sql_patterns is found by re.search(pattern, text, re.IGNORECASE)
MatchesSqlPattern(text) ==
    \/ \E w \in SqlWords : \E i \in 1..Len(text) : WordAt(text, i, w)
    \/ \E w \in SqlTokens : \E i \in 1..Len(text) : MatchesAt(text, i, w)
    \/ WordThenEquals(text, <<"O","R">>)
    \/ WordThenEquals(text, <<"A","N","D">>)

\* validate_input(text, max_length, min_length=1) for a str argument
validate_input(text, max_length) ==
    /\ ~(Len(text) < 1)
    /\ ~(Len(text) > max_length)
    /\ ~MatchesSqlPattern(text)

(***************************************************************************)
(* agent/news_agent.py: NewsAnalysisAgent._parse_keyword_operators         *)
(***************************************************************************)
\* number of whitespace characters of s from index i on
RECURSIVE SpaceRun(_, _)
SpaceRun(s, i) ==
    IF i <= Len(s) /\ IsSpace(s[i]) THEN 1 + SpaceRun(s, i + 1) ELSE 0

\* (?:\|\||OR) under re.IGNORECASE at index i
OrCoreAt(s, i) == MatchesAt(s, i, <<"|","|">>) \/ MatchesAt(s, i, <<"O","R">>)

\* or_pattern = \s*(?:\|\||OR)\s* tried at index i: the index after the match,
\* 0 when the pattern does not match there
OrPatternEnd(s, i) ==
    LET j == i + SpaceRun(s, i) IN
    IF OrCoreAt(s, j) THEN j + 2 + SpaceRun(s, j + 2) ELSE 0

\* re.search(or_pattern, keyword, re.IGNORECASE)
OrPatternFound(s) == \E i \in 1..Len(s) : OrPatternEnd(s, i) > 0

\* re.split(or_pattern, keyword, flags=re.IGNORECASE) from index i on, cur being
\* the piece collected since the last match
RECURSIVE OrSplitFrom(_, _, _)
OrSplitFrom(s, i, cur) ==
    IF i > Len(s) THEN <<cur>>
    ELSE LET e == OrPatternEnd(s, i) IN
         IF e > 0 THEN <<cur>> \o OrSplitFrom(s, e, <<>>)
         ELSE OrSplitFrom(s, i + 1, Append(cur, s[i]))

\* [k.strip() for k in pieces if k.strip()]
RECURSIVE StripNonEmpty(_)
StripNonEmpty(pieces) ==
    IF pieces = <<>> THEN <<>>
    ELSE LET k == Strip(Head(pieces)) IN
         IF k # <<>> THEN <<k>> \o StripNonEmpty(Tail(pieces))
         ELSE StripNonEmpty(Tail(pieces))

_parse_keyword_operators(keyword) ==
    LET kw == Strip(keyword) IN
    IF OrPatternFound(kw)
    THEN [type |-> "or", keywords |-> StripNonEmpty(OrSplitFrom(kw, 1, <<>>))]
    ELSE [type |-> "single", keywords |-> <<kw>>]

(***************************************************************************)
(* agent/news_agent.py: the source tables of the coordinator               *)
(***************************************************************************)
NaverKo == "Neibeo"
GoogleKo == "Gugeul"
None == "None"

\* source_mapping.get(source) of analyze_news_async, _analyze_single_keyword
\* and search_news_parallel
source_mapping(source) ==
    CASE source \in {NaverKo, "naver"} -> NaverKo
      [] source \in {GoogleKo, "google"} -> GoogleKo
      [] OTHER -> None

unsupported_sources ==
    {"Daeum", "Daum", "KBS", "SBS", "MBC", "YTN", "JTBC", "Yeonhap"}

SeqContains(seq, x) == \E i \in 1..Len(seq) : seq[i] = x

\* the loop over (sources or [Naver]) of analyze_news_async
RECURSIVE FilterSources(_, _, _)
FilterSources(srcs, valid, rejected) ==
    IF srcs = <<>> THEN [valid |-> valid, rejected |-> rejected]
    ELSE LET source == Head(srcs)
             normalized_source == source_mapping(source)
         IN  IF source \in unsupported_sources
             THEN FilterSources(Tail(srcs), valid, Append(rejected, source))
             ELSE IF normalized_source # None
             THEN FilterSources(Tail(srcs),
                                IF SeqContains(valid, normalized_source)
                                THEN valid ELSE Append(valid, normalized_source),
                                rejected)
             ELSE FilterSources(Tail(srcs), valid, Append(rejected, source))

\* the loop over sources of _analyze_single_keyword and search_news_parallel,
\* with its default
RECURSIVE NormalizeSources(_, _)
NormalizeSources(srcs, valid) ==
    IF srcs = <<>> THEN (IF valid = <<>> THEN <<NaverKo>> ELSE valid)
    ELSE LET normalized == source_mapping(Head(srcs)) IN
         NormalizeSources(Tail(srcs),
                          IF normalized # None /\ ~SeqContains(valid, normalized)
                          THEN Append(valid, normalized) ELSE valid)

(***************************************************************************)
(* agent/news_agent.py: the token counters                                 *)
(***************************************************************************)
\* the counters as every analysis initialises them, and the usage a summary
\* call reports when it failed or the response carried none
ZeroUsage == [prompt_tokens |-> 0, completion_tokens |-> 0, total_tokens |-> 0]

\* the usage the API reports for a completed call
CallUsage == [prompt_tokens |-> 2, completion_tokens |-> 1, total_tokens |-> 3]

\* token_usage[k] += usage.get(k, 0) for the three counters
AddUsage(tokens, usage) ==
    [prompt_tokens |-> tokens.prompt_tokens + usage.prompt_tokens,
     completion_tokens |-> tokens.completion_tokens + usage.completion_tokens,
     total_tokens |-> tokens.total_tokens + usage.total_tokens]

\* what _summarize_article and _generate_overall_summary return: no summary
\* (no key, or the call raised), or the text with the usage of the response
SummaryOutcomes ==
    {[summary |-> "", usage |-> ZeroUsage],
     [summary |-> "text", usage |-> ZeroUsage],
     [summary |-> "text", usage |-> CallUsage]}

(***************************************************************************)
(* State.                                                                  *)
(***************************************************************************)
VARIABLES
    pKeyword,   \* SpecParse: the argument of _parse_keyword_operators
    pResult,    \* SpecParse: what the call returned
    pPc         \* SpecParse: "call" before the call, "done" after it

VARIABLES
    keyword,            \* analyze_news_async: the keyword argument
    sourcesArg,         \* the sources argument: [isNone, list]
    max_articles,       \* the max_articles argument
    playwrightAvailable,\* the module flag PLAYWRIGHT_AVAILABLE
    pc,                 \* the await point or statement the call stands at
    sources,            \* the local sources after the None default
    valid_sources,      \* the normalized sources of the running analysis
    scrapers,           \* every scraper object created, with its cleanup record
    crawled,            \* articles scrape_all has extracted so far
    article_urls,       \* Selenium path: the URLs search_news returned
    urlIdx,             \* Selenium path: position of the sequential extraction
    articles_data,      \* the crawl result the analysis works on
    analyzed_articles,  \* the scored articles
    all_comments,       \* number of scored comment texts
    trend_result,       \* the trend analysis of the plain path
    token_usage,        \* accumulated token counters of the running analysis
    overall_usage,      \* the usage the combined summary call reported
    orKeywords,         \* OR path: the sub-keywords
    orIdx,              \* OR path: the sub-keyword being analysed
    orAcc,              \* OR path: all_articles, combined_sentiment, ...
    subResult,          \* OR path: the last value of _analyze_single_keyword
    orCalls,            \* OR path: the calls of _analyze_single_keyword so far
    timedOut,           \* a wait_for around a crawl has raised TimeoutError
    started,            \* work started since the call: searches, scoring steps
    outcome,            \* "running", "returned", "raised" or "cancelled"
    result              \* the returned value

parseVars == <<pKeyword, pResult, pPc>>

inputVars == <<keyword, sourcesArg, max_articles, playwrightAvailable>>

crawlStateVars == <<crawled, article_urls, urlIdx, articles_data>>

scoreVars ==
    <<analyzed_articles, all_comments, trend_result, token_usage, overall_usage>>

orVars == <<orKeywords, orIdx, orAcc, subResult, orCalls>>

endVars == <<timedOut, outcome, result>>

coordVars ==
    <<inputVars, pc, sources, valid_sources, scrapers, crawlStateVars,
      scoreVars, orVars, started, endVars>>

VARIABLES
    entry,          \* SpecCrawl: the method of PlaywrightNewsScraper called
    crawlKeyword,   \* the keyword argument of scrape_all
    keywordOk,      \* validate_input(keyword, max_length=100) of the scrapers
    requested,      \* the sources argument of scrape_all
    max_concurrent, \* the max_concurrent of extract_articles_parallel
    phase,          \* "search", "extract", "cancelling", "cleanup", "cleaned"
    tasks,          \* the coroutines handed to gather, in creation order
    url_map,        \* what search_news_parallel returned
    semaphore,      \* the value of asyncio.Semaphore(max_concurrent)
    articles,       \* what extract_articles_parallel returned
    searchOutcome,  \* search_news_parallel: "none", "returned" or "raised"
    extractOutcome, \* extract_articles_parallel: "none", "returned" or "raised"
    crawlOutcome,   \* the awaited call: "running", "returned", "raised", "cancelled"
    _playwright,    \* per scraper: self._playwright (0 is None)
    browser,        \* per scraper: self.browser (0 is None)
    context,        \* per scraper: self.context (0 is None)
    openPlaywrights,\* started Playwright drivers, named by the starting task
    openBrowsers,   \* open browsers, named by the launching task
    openContexts,   \* open browser contexts, named by the creating task
    openPages,      \* open pages: [id |-> opening task, ctx |-> its context]
    cleanupPc       \* per scraper: the await point of cleanup()

VARIABLES
    aScraper,   \* SpecArticle: the scraper extract_article is called on
    aUrlValid,  \* validate_url(url)
    nSelectors, \* the length of the selector lists
    aPc,        \* the await point extract_article stands at
    xPc,        \* extract_text_by_selectors: "idle", "running", "returned", "raised"
    xIdx,       \* extract_text_by_selectors: the selector tried next
    xLookups,   \* the outcomes of the lookups of the call, in order
    xRet,       \* what extract_text_by_selectors returned
    aExtracted, \* what the calls for the title and for the content returned
    title,      \* the local title of extract_article
    content,    \* the local content of extract_article
    aOutcome,   \* "running", "returned" or "raised"
    aResult     \* the returned value

articleVars ==
    <<aScraper, aUrlValid, nSelectors, aPc, xPc, xIdx, xLookups, xRet,
      aExtracted, title, content, aOutcome, aResult>>

VARIABLES
    sEntry,     \* SpecScorer: the function of analyzer.py that is called
    sText,      \* the comment_text argument
    sComments,  \* the number of comments passed to the trend functions
    sUseOpenai, \* the use_openai argument
    sKeyOk,     \* the library is installed and its API key configured
    sPc,        \* the statement the call stands at
    sLlmRaised, \* openai.ChatCompletion.create raised
    sResponse,  \* the response text handed to parse_json_response
    sParsed,    \* what parse_json_response returned
    sOutcome,   \* "running", "returned" or "raised"
    sResult     \* the returned value

scorerVars ==
    <<sEntry, sText, sComments, sUseOpenai, sKeyOk, sPc, sLlmRaised, sResponse,
      sParsed, sOutcome, sResult>>

VARIABLES
    tModule,    \* SpecTools: the module of the called calculator tool
    tTool,      \* the tool: "add_tool", "multiply_tool" or "divide_tool"
    tX,         \* the argument x
    tY,         \* the argument y
    tPc,        \* "call" before the call, "done" after it
    tOutcome,   \* "running", "returned" or the name of the exception raised
    tResult     \* the returned number

toolVars == <<tModule, tTool, tX, tY, tPc, tOutcome, tResult>>

VARIABLES
    zSources,       \* SpecSelenium: the valid sources the search thread visits
    zKeywordOk,     \* the keyword passes validate_input(keyword, max_length=100)
    driver,         \* NewsScraperTool.driver: 0 for None, or the id of a WebDriver
    openDrivers,    \* the ids of the WebDrivers that are open (created, not quit)
    createdDrivers, \* how many WebDrivers setup_driver has created
    thPc,           \* the statement the search thread stands at
    thIdx,          \* the index of the source the search thread is at
    thNew,          \* the WebDriver setup_driver returned, not yet assigned
    mPc,            \* the statement analyze_news_async stands at
    mUrls,          \* the URLs search_news has collected and not yet extracted
    cleanupDriver,  \* the WebDriver cleanup() has called quit() on
    mOutcome        \* "running", "success", "not_found" or "timeout"

seleniumVars ==
    <<zSources, zKeywordOk, driver, openDrivers, createdDrivers, thPc, thIdx,
      thNew, mPc, mUrls, cleanupDriver, mOutcome>>

crawlInputVars == <<entry, crawlKeyword, keywordOk, requested, max_concurrent>>

callVars == <<url_map, articles, searchOutcome, extractOutcome, crawlOutcome>>

refVars == <<_playwright, browser, context>>

openVars == <<openPlaywrights, openBrowsers, openContexts, openPages>>

crawlVars ==
    <<crawlInputVars, phase, tasks, semaphore, callVars, refVars, openVars,
      cleanupPc>>

\* the variables of the specifications of single functions
unitVars == <<parseVars, articleVars, scorerVars, toolVars, seleniumVars>>

vars == <<unitVars, coordVars, crawlVars>>

\* a text value of Python: None, or a str
NoText == [isNone |-> TRUE, text |-> <<>>]

Text(str) == [isNone |-> FALSE, text |-> str]

\* no _parse_keyword_operators call is running
ParseIdle ==
    /\ pKeyword = <<>>
    /\ pResult = [type |-> "none", keywords |-> <<>>]
    /\ pPc = "idle"

\* no extract_article call is running
ArticleIdle ==
    /\ aScraper = "none"
    /\ aUrlValid = TRUE
    /\ nSelectors = 0
    /\ aPc = "idle"
    /\ xPc = "idle"
    /\ xIdx = 0
    /\ xLookups = <<>>
    /\ xRet = NoText
    /\ aExtracted = [title |-> NoText, content |-> NoText]
    /\ title = NoText
    /\ content = NoText
    /\ aOutcome = "idle"
    /\ aResult = [none |-> TRUE]

\* no function of analyzer.py is running
ScorerIdle ==
    /\ sEntry = "none"
    /\ sText = <<>>
    /\ sComments = 0
    /\ sUseOpenai = TRUE
    /\ sKeyOk = TRUE
    /\ sPc = "idle"
    /\ sLlmRaised = FALSE
    /\ sResponse = [none |-> TRUE]
    /\ sParsed = [none |-> TRUE]
    /\ sOutcome = "idle"
    /\ sResult = [none |-> TRUE]

\* no calculator tool is called
ToolIdle ==
    /\ tModule = "none"
    /\ tTool = "none"
    /\ tX = 0
    /\ tY = 0
    /\ tPc = "idle"
    /\ tOutcome = "idle"
    /\ tResult = [none |-> TRUE]

\* no Selenium session is running
SeleniumIdle ==
    /\ zSources = 0
    /\ zKeywordOk = TRUE
    /\ driver = 0
    /\ openDrivers = {}
    /\ createdDrivers = 0
    /\ thPc = "idle"
    /\ thIdx = 0
    /\ thNew = 0
    /\ mPc = "idle"
    /\ mUrls = 0
    /\ cleanupDriver = 0
    /\ mOutcome = "idle"

\* the crawl of SpecCrawl is not running
CrawlIdle ==
    /\ entry = "none"
    /\ crawlKeyword = <<>>
    /\ keywordOk = TRUE
    /\ requested = <<>>
    /\ max_concurrent = 0
    /\ phase = "idle"
    /\ tasks = <<>>
    /\ semaphore = 0
    /\ url_map = <<>>
    /\ articles = <<>>
    /\ searchOutcome = "none"
    /\ extractOutcome = "none"
    /\ crawlOutcome = "idle"
    /\ _playwright = <<>>
    /\ browser = <<>>
    /\ context = <<>>
    /\ openPlaywrights = {}
    /\ openBrowsers = {}
    /\ openContexts = {}
    /\ openPages = {}
    /\ cleanupPc = <<>>

CoordIdle ==
    /\ keyword = <<>>
    /\ sourcesArg = [isNone |-> TRUE, list |-> <<>>]
    /\ max_articles = 0
    /\ playwrightAvailable = TRUE
    /\ pc = "idle"
    /\ sources = <<>>
    /\ valid_sources = <<>>
    /\ scrapers = <<>>
    /\ crawled = <<>>
    /\ article_urls = <<>>
    /\ urlIdx = 0
    /\ articles_data = <<>>
    /\ analyzed_articles = <<>>
    /\ all_comments = 0
    /\ trend_result = [none |-> TRUE]
    /\ token_usage = ZeroUsage
    /\ overall_usage = ZeroUsage
    /\ orKeywords = <<>>
    /\ orIdx = 0
    /\ orAcc = [none |-> TRUE]
    /\ subResult = [none |-> TRUE]
    /\ orCalls = <<>>
    /\ timedOut = FALSE
    /\ started = {}
    /\ outcome = "idle"
    /\ result = [none |-> TRUE]

(***************************************************************************)
(* agent/news_agent.py: NewsAnalysisAgent.analyze_news_async, plain path   *)
(***************************************************************************)
\* max_length of the coordinator's validate_input call
KeywordMaxLength == 200

KwEmpty == <<>>
KwAI == <<"A","I">>
KwSql == <<"a",";","b">>
KwLong == [i \in 1..(KeywordMaxLength + 1) |-> "a"]
KwOr2 == <<"a"," ","|","|"," ","b">>
KwWordOr == <<"K","o","r","e","a">>

Keywords == {KwEmpty, KwAI, KwSql, KwLong, KwOr2}

SourceNames == {NaverKo, "google", "Daum", "BBC"}

RECURSIVE SeqsUpTo(_, _)
SeqsUpTo(S, n) ==
    IF n = 0 THEN {<<>>}
    ELSE LET shorter == SeqsUpTo(S, n - 1) IN
         shorter \cup {Append(q, x) : q \in {t \in shorter : Len(t) = n - 1},
                                      x \in S}

SourceArgs ==
    {[isNone |-> TRUE, list |-> <<>>]}
    \cup {[isNone |-> FALSE, list |-> l] : l \in SeqsUpTo(SourceNames, MaxSources)}

\* the max_articles arguments: below, at and above 3 articles per sub-keyword
MaxArticlesArgs == {1, 6, 8}

SentimentLabels == {"positive", "negative", "neutral"}

NoValue == [none |-> TRUE]

\* the error dictionaries of analyze_news_async
ErrorResult(kind, kw, srcs) ==
    [error |-> kind, keyword |-> kw, sources |-> srcs]

UnsupportedResult(kw, rejected) ==
    [error |-> "unsupported_sources", keyword |-> kw,
     rejected_sources |-> rejected, supported_sources |-> <<NaverKo, GoogleKo>>]

\* the distribution without the else branch that counts every other label as
\* neutral
RECURSIVE _calculate_sentiment_distribution_NoElse(_)
_calculate_sentiment_distribution_NoElse(arts) ==
    IF arts = <<>> THEN [positive |-> 0, negative |-> 0, neutral |-> 0]
    ELSE LET d == _calculate_sentiment_distribution_NoElse(Tail(arts))
             sentiment == Head(arts).sentiment
         IN  IF sentiment = "positive" THEN [d EXCEPT !.positive = @ + 1]
             ELSE IF sentiment = "negative" THEN [d EXCEPT !.negative = @ + 1]
             ELSE d

\* _calculate_sentiment_distribution
RECURSIVE _calculate_sentiment_distribution(_)
_calculate_sentiment_distribution(arts) ==
    IF arts = <<>> THEN [positive |-> 0, negative |-> 0, neutral |-> 0]
    ELSE LET d == _calculate_sentiment_distribution(Tail(arts))
             sentiment == Head(arts).sentiment
         IN  IF sentiment = "positive" THEN [d EXCEPT !.positive = @ + 1]
             ELSE IF sentiment = "negative" THEN [d EXCEPT !.negative = @ + 1]
             ELSE [d EXCEPT !.neutral = @ + 1]

\* the result dictionary of a completed plain analysis
SuccessResult(kw, srcs, arts, trend, summary, tokens) ==
    [keyword |-> kw, sources |-> srcs, total_articles |-> Len(arts),
     articles |-> arts,
     sentiment_distribution |-> _calculate_sentiment_distribution(arts),
     trend_analysis |-> trend, keywords |-> "frequency_table",
     overall_summary |-> summary, timing |-> "timing_info",
     token_usage |-> tokens, analyzed_at |-> "now"]

\* the finally clause around the crawl: cleanup() of the scraper created last,
\* whichever way the try block is left ("normal", "empty", "timeout",
\* "exception", "cancel")
CleanupOnExit_NoFinally(scr, path) ==
    IF path \in {"normal", "empty"}
    THEN [scr EXCEPT ![Len(scr)].cleaned = TRUE]
    ELSE scr

CleanupOnExit(scr, path) == [scr EXCEPT ![Len(scr)].cleaned = TRUE]

\* a return statement of analyze_news_async
Return(res) ==
    /\ result' = res
    /\ outcome' = "returned"
    /\ pc' = "done"

\* an exception leaving analyze_news_async
Raise(kind) ==
    /\ result' = NoValue
    /\ outcome' = kind
    /\ pc' = "done"

Init ==
    /\ pKeyword = <<>>
    /\ pResult = [type |-> "none", keywords |-> <<>>]
    /\ pPc = "idle"
    /\ keyword \in Keywords
    /\ sourcesArg \in SourceArgs
    /\ max_articles \in MaxArticlesArgs
    /\ playwrightAvailable \in BOOLEAN
    /\ pc = "entry"
    /\ sources = <<>>
    /\ valid_sources = <<>>
    /\ scrapers = <<>>
    /\ crawled = <<>>
    /\ article_urls = <<>>
    /\ urlIdx = 0
    /\ articles_data = <<>>
    /\ analyzed_articles = <<>>
    /\ all_comments = 0
    /\ trend_result = NoValue
    /\ token_usage = ZeroUsage
    /\ overall_usage = ZeroUsage
    /\ orKeywords = <<>>
    /\ orIdx = 0
    /\ orAcc = NoValue
    /\ subResult = NoValue
    /\ orCalls = <<>>
    /\ timedOut = FALSE
    /\ started = {}
    /\ outcome = "running"
    /\ result = NoValue
    /\ CrawlIdle
    /\ ArticleIdle
    /\ ScorerIdle
    /\ ToolIdle
    /\ SeleniumIdle

\* lines 166-181: the None default, validate_input, the OR dispatch
Validate ==
    /\ pc = "entry"
    /\ sources' = IF sourcesArg.isNone THEN <<NaverKo>> ELSE sourcesArg.list
    /\ IF ~validate_input(keyword, KeywordMaxLength)
       THEN /\ Raise("raised")
            /\ UNCHANGED <<orKeywords, orIdx, orAcc>>
       ELSE LET parsed == _parse_keyword_operators(keyword) IN
            IF parsed.type = "or" /\ Len(parsed.keywords) > 1
            THEN /\ pc' = "or_next"
                 /\ orKeywords' = parsed.keywords
                 /\ orIdx' = 1
                 /\ orAcc' = [all_articles |-> <<>>,
                              combined_sentiment |->
                                  [positive |-> 0, negative |-> 0, neutral |-> 0],
                              keyword_results |-> <<>>,
                              token_usage |-> ZeroUsage]
                 /\ UNCHANGED <<outcome, result>>
            ELSE /\ pc' = "filter"
                 /\ UNCHANGED <<orKeywords, orIdx, orAcc, outcome, result>>
    /\ UNCHANGED <<unitVars, crawlVars, inputVars, valid_sources, scrapers, crawlStateVars,
                   scoreVars, subResult, orCalls, started, timedOut>>

\* lines 208-240: source filtering and the unsupported-sources error
FilterStep ==
    /\ pc = "filter"
    /\ LET f == FilterSources(IF sources = <<>> THEN <<NaverKo>> ELSE sources,
                              <<>>, <<>>)
       IN  IF f.valid = <<>> /\ f.rejected # <<>>
           THEN /\ Return(UnsupportedResult(keyword, f.rejected))
                /\ UNCHANGED valid_sources
           ELSE /\ valid_sources' = IF f.valid = <<>> THEN <<NaverKo>> ELSE f.valid
                /\ pc' = "start_crawl"
                /\ UNCHANGED <<outcome, result>>
    /\ UNCHANGED <<unitVars, crawlVars, inputVars, sources, scrapers, crawlStateVars,
                   scoreVars, orVars, started, timedOut>>

\* lines 243-253 and 270-278: the scraper is created and the crawl awaited
StartCrawl ==
    /\ pc = "start_crawl"
    /\ scrapers' = Append(scrapers,
                          [kind |-> IF playwrightAvailable THEN "playwright"
                                    ELSE "selenium",
                           cleaned |-> FALSE])
    /\ pc' = IF playwrightAvailable THEN "pw_crawl" ELSE "sel_search"
    /\ started' = started \cup {"search"}
    /\ UNCHANGED <<unitVars, crawlVars, inputVars, sources, valid_sources, crawlStateVars,
                   scoreVars, orVars, endVars>>

\* most articles a crawl of the given sources can return
CrawlLimit(srcs, perSource) ==
    IF Len(srcs) * perSource < MaxCrawl THEN Len(srcs) * perSource ELSE MaxCrawl

\* an article dictionary as extract_article returns it, tagged by the coordinator
PwArticle(n, kw) ==
    [url |-> n, keyword |-> kw, comments |-> 0, placeholder |-> FALSE]

\* inside scrape_all: one more article has been extracted
PwExtract ==
    /\ pc = "pw_crawl"
    /\ Len(crawled) < CrawlLimit(valid_sources, max_articles)
    /\ crawled' = Append(crawled, PwArticle(Len(crawled) + 1, keyword))
    /\ started' = started \cup {"extract"}
    /\ UNCHANGED <<unitVars, crawlVars, inputVars, pc, sources, valid_sources, scrapers,
                   article_urls, urlIdx, articles_data, scoreVars, orVars, endVars>>

\* lines 309-314: the check of the crawl result before scoring
AfterCrawl(arts) ==
    IF arts = <<>>
    THEN /\ Return(ErrorResult("collect_failed", keyword, sources))
         /\ UNCHANGED articles_data
    ELSE /\ articles_data' = arts
         /\ pc' = "score"
         /\ UNCHANGED <<outcome, result>>

\* lines 250-257, 266-267: scrape_all returns within the timeout
PwComplete ==
    /\ pc = "pw_crawl"
    /\ scrapers' = CleanupOnExit(scrapers, IF crawled = <<>> THEN "empty" ELSE "normal")
    /\ AfterCrawl(crawled)
    /\ UNCHANGED <<unitVars, crawlVars, inputVars, sources, valid_sources, crawled,
                   article_urls, urlIdx, scoreVars, orVars, started, timedOut>>

\* what the timeout handler of the crawl phase returns (lines 259-265)
TimeoutReturn(arts) ==
    /\ Return(ErrorResult("timeout", keyword, valid_sources))
    /\ UNCHANGED <<articles_data, started>>

\* lines 259-267: wait_for raises TimeoutError before scrape_all has returned
PwTimeout ==
    /\ pc = "pw_crawl"
    /\ timedOut' = TRUE
    /\ scrapers' = CleanupOnExit(scrapers, "timeout")
    /\ TimeoutReturn(crawled)
    /\ UNCHANGED <<unitVars, crawlVars, inputVars, sources, valid_sources, crawled,
                   article_urls, urlIdx, scoreVars, orVars>>

\* lines 461-467: the outer handler turns an exception into the error shape
PwRaise ==
    /\ pc = "pw_crawl"
    /\ scrapers' = CleanupOnExit(scrapers, "exception")
    /\ Return(ErrorResult("exception", keyword, sources))
    /\ UNCHANGED <<unitVars, crawlVars, inputVars, sources, valid_sources, crawlStateVars,
                   scoreVars, orVars, started, timedOut>>

\* the URL list search_news returns: n distinct URLs
UrlList(n) == [i \in 1..n |-> i]

\* comments a crawled article can carry: none, one, more than are scored
CommentChoices == {0, 1, 11}

\* lines 275-285: the Selenium search returns within its timeout
SelSearchDone ==
    /\ pc = "sel_search"
    /\ \E n \in 0..CrawlLimit(valid_sources, max_articles) :
          /\ article_urls' = UrlList(n)
          /\ IF n = 0
             THEN /\ scrapers' = CleanupOnExit(scrapers, "empty")
                  /\ Return(ErrorResult("not_found", keyword, valid_sources))
                  /\ UNCHANGED urlIdx
             ELSE /\ pc' = "sel_extract"
                  /\ urlIdx' = 1
                  /\ UNCHANGED <<scrapers, outcome, result>>
    /\ UNCHANGED <<unitVars, crawlVars, inputVars, sources, valid_sources, crawled,
                   articles_data, scoreVars, orVars, started, timedOut>>

\* lines 300-307: the Selenium search does not return within its timeout
SelSearchTimeout ==
    /\ pc = "sel_search"
    /\ timedOut' = TRUE
    /\ scrapers' = CleanupOnExit(scrapers, "timeout")
    /\ TimeoutReturn(crawled)
    /\ UNCHANGED <<unitVars, crawlVars, inputVars, sources, valid_sources, crawled,
                   article_urls, urlIdx, scoreVars, orVars>>

\* lines 306-307, 461-467: the awaited search raises
SelSearchRaise ==
    /\ pc = "sel_search"
    /\ scrapers' = CleanupOnExit(scrapers, "exception")
    /\ Return(ErrorResult("exception", keyword, sources))
    /\ UNCHANGED <<unitVars, crawlVars, inputVars, sources, valid_sources, crawlStateVars,
                   scoreVars, orVars, started, timedOut>>

\* what scrape_article does on one URL: an article, the extraction-failure
\* placeholder article, or an exception
ScrapeOutcomes == {"article", "placeholder", "raise"}

SelArticle(url, kw, o, c) ==
    [url |-> url, keyword |-> kw,
     comments |-> IF o = "placeholder" THEN 0 ELSE c,
     placeholder |-> (o = "placeholder")]

\* lines 288-298: one round of the sequential extraction loop
SelExtract ==
    /\ pc = "sel_extract"
    /\ urlIdx <= Len(article_urls)
    /\ \E o \in ScrapeOutcomes, c \in CommentChoices :
          crawled' = IF o = "raise" THEN crawled
                     ELSE Append(crawled, SelArticle(article_urls[urlIdx], keyword, o, c))
    /\ urlIdx' = urlIdx + 1
    /\ started' = started \cup {"extract"}
    /\ UNCHANGED <<unitVars, crawlVars, inputVars, pc, sources, valid_sources, scrapers,
                   article_urls, articles_data, scoreVars, orVars, endVars>>

\* lines 306-314: the loop is over, the scraper is cleaned up
SelExtractDone ==
    /\ pc = "sel_extract"
    /\ urlIdx > Len(article_urls)
    /\ scrapers' = CleanupOnExit(scrapers, IF crawled = <<>> THEN "empty" ELSE "normal")
    /\ AfterCrawl(crawled)
    /\ UNCHANGED <<unitVars, crawlVars, inputVars, sources, valid_sources, crawled,
                   article_urls, urlIdx, scoreVars, orVars, started, timedOut>>

\* the caller cancels the call while it awaits the crawl: CancelledError passes
\* the finally clause and is not an Exception, so it leaves the call
Cancel ==
    /\ pc \in {"pw_crawl", "sel_search"}
    /\ scrapers' = CleanupOnExit(scrapers, "cancel")
    /\ Raise("cancelled")
    /\ UNCHANGED <<unitVars, crawlVars, inputVars, sources, valid_sources, crawlStateVars,
                   scoreVars, orVars, started, timedOut>>

\* most comments of an article that are scored (article_comments[:10])
CommentCap == 10

Min(a, b) == IF a < b THEN a ELSE b

\* the lengths analyzed_comments can have for an article with n comments: of
\* the first CommentCap comments none is scored, all but one, or all (a
\* comment with an empty text or a failing score is left out)
ScoredCounts(n) ==
    {k \in 0..Min(n, CommentCap) : k = 0 \/ k >= Min(n, CommentCap) - 1}

\* what analyze_sentiment_func gives for one text: a label, or an exception
ScoreOutcomes == SentimentLabels \cup {"raise"}

\* the analysed article without the default of the except branch
Analyzed_NoDefault(article, o, nScored) ==
    [url |-> article.url, keyword |-> article.keyword,
     placeholder |-> article.placeholder,
     sentiment |-> o,
     scored |-> (o # "raise"),
     summary |-> "",
     comment_count |-> nScored]

\* lines 331-372: the analysed article built from the crawled one
Analyzed(article, o, nScored) ==
    [url |-> article.url, keyword |-> article.keyword,
     placeholder |-> article.placeholder,
     sentiment |-> IF o = "raise" THEN "neutral" ELSE o,
     scored |-> (o # "raise"),
     summary |-> "",
     comment_count |-> nScored]

\* lines 325-372: one round of the scoring loop
ScoreArticle ==
    /\ pc = "score"
    /\ Len(analyzed_articles) < Len(articles_data)
    /\ LET article == articles_data[Len(analyzed_articles) + 1] IN
       \E o \in ScoreOutcomes, k \in ScoredCounts(article.comments) :
          /\ analyzed_articles' = Append(analyzed_articles, Analyzed(article, o, k))
          /\ all_comments' = all_comments + k
    /\ started' = started \cup {"score"}
    /\ UNCHANGED <<unitVars, crawlVars, inputVars, pc, sources, valid_sources, scrapers,
                   crawlStateVars, trend_result, token_usage, overall_usage, orVars,
                   endVars>>

\* analyzed_articles[i]["summary"] = summary_result["summary"], for every i
WithSummaries(arts, outs) ==
    [i \in 1..Len(arts) |-> [arts[i] EXCEPT !.summary = outs[i].summary]]

\* the counters after the usage of every summary call has been added
RECURSIVE AddUsages(_, _)
AddUsages(tokens, outs) ==
    IF outs = <<>> THEN tokens
    ELSE AddUsages(AddUsage(tokens, Head(outs).usage), Tail(outs))

\* lines 378-391: the per-article summaries, each an LLM call that may fail
Summarize ==
    /\ pc = "score"
    /\ Len(analyzed_articles) = Len(articles_data)
    /\ \E outs \in [1..Len(analyzed_articles) -> SummaryOutcomes] :
          /\ analyzed_articles' = WithSummaries(analyzed_articles, outs)
          /\ token_usage' = AddUsages(token_usage, outs)
    /\ pc' = "trend"
    /\ started' = started \cup {"summarize"}
    /\ UNCHANGED <<unitVars, crawlVars, inputVars, sources, valid_sources, scrapers,
                   crawlStateVars, all_comments, trend_result, overall_usage, orVars,
                   endVars>>

\* lines 400-408: the trend of a session without comments
FallbackTrend ==
    [total_comments |-> 0, overall_sentiment |-> "neutral",
     sentiment_distribution |-> [positive |-> 33, negative |-> 33, neutral |-> 34]]

\* lines 393-408: the trend analysis; analyze_news_trend_func may raise, which
\* the outer handler (lines 461-467) turns into the error shape
Trend ==
    /\ pc = "trend"
    /\ started' = started \cup {"trend"}
    /\ IF all_comments > 0
       THEN \/ /\ trend_result' = [total_comments |-> all_comments,
                                   overall_sentiment |-> "model",
                                   sentiment_distribution |-> "model"]
               /\ pc' = "overall"
               /\ UNCHANGED <<outcome, result>>
            \/ /\ Return(ErrorResult("exception", keyword, sources))
               /\ UNCHANGED trend_result
       ELSE /\ trend_result' = FallbackTrend
            /\ pc' = "overall"
            /\ UNCHANGED <<outcome, result>>
    /\ UNCHANGED <<unitVars, crawlVars, inputVars, sources, valid_sources, scrapers,
                   crawlStateVars, analyzed_articles, all_comments, token_usage,
                   overall_usage, orVars, timedOut>>

\* lines 410-459: distribution, keywords, overall summary, the result
Overall ==
    /\ pc = "overall"
    /\ started' = started \cup {"overall"}
    /\ \E overall_result \in SummaryOutcomes :
          /\ overall_usage' = overall_result.usage
          /\ token_usage' = AddUsage(token_usage, overall_result.usage)
          /\ Return(SuccessResult(keyword, sources, analyzed_articles, trend_result,
                                  overall_result.summary, token_usage'))
    /\ UNCHANGED <<unitVars, crawlVars, inputVars, sources, valid_sources, scrapers,
                   crawlStateVars, analyzed_articles, all_comments, trend_result,
                   orVars, timedOut>>

PlainNext ==
    \/ Validate
    \/ FilterStep
    \/ StartCrawl
    \/ PwExtract
    \/ PwComplete
    \/ PwTimeout
    \/ PwRaise
    \/ SelSearchDone
    \/ SelSearchTimeout
    \/ SelSearchRaise
    \/ SelExtract
    \/ SelExtractDone
    \/ Cancel
    \/ ScoreArticle
    \/ Summarize
    \/ Trend
    \/ Overall

(***************************************************************************)
(* agent/news_agent.py: _analyze_multiple_keywords_or and                  *)
(* _analyze_single_keyword                                                 *)
(***************************************************************************)
\* " || ".join(keywords)
RECURSIVE JoinOr(_)
JoinOr(kws) ==
    IF kws = <<>> THEN <<>>
    ELSE IF Len(kws) = 1 THEN Head(kws)
    ELSE Head(kws) \o <<" ", "|", "|", " ">> \o JoinOr(Tail(kws))

\* line 572: articles_per_keyword = max(3, max_articles // len(keywords))
ArticlesPerKeyword(maxArticles, n) ==
    IF maxArticles \div n > 3 THEN maxArticles \div n ELSE 3

\* the sub-keyword _analyze_single_keyword is running on
SubKeyword == orKeywords[orIdx]

\* the value _analyze_single_keyword returns to the OR loop
SubReturn(res) ==
    /\ subResult' = res
    /\ pc' = "or_merge"

\* lines 574-581, 688-713, 721-726: the next sub-keyword is analysed: its
\* sources are normalized, its scraper created and its crawl awaited
OrNext ==
    /\ pc = "or_next"
    /\ orIdx <= Len(orKeywords)
    /\ valid_sources' = NormalizeSources(sources, <<>>)
    /\ scrapers' = Append(scrapers,
                          [kind |-> IF playwrightAvailable THEN "playwright"
                                    ELSE "selenium",
                           cleaned |-> FALSE])
    /\ crawled' = <<>>
    /\ article_urls' = <<>>
    /\ urlIdx' = 0
    /\ articles_data' = <<>>
    /\ analyzed_articles' = <<>>
    /\ token_usage' = ZeroUsage
    /\ orCalls' = Append(orCalls,
                         [keyword |-> SubKeyword,
                          max_articles |->
                              ArticlesPerKeyword(max_articles, Len(orKeywords)),
                          result |-> NoValue])
    /\ pc' = IF playwrightAvailable THEN "sub_pw_crawl" ELSE "sub_sel_search"
    /\ started' = started \cup {"search"}
    /\ UNCHANGED <<unitVars, crawlVars, inputVars, sources, all_comments, trend_result,
                   overall_usage, orKeywords, orIdx, orAcc, subResult, endVars>>

\* most articles the crawl of one sub-keyword can return
SubCrawlLimit ==
    Min(Len(valid_sources) * orCalls[Len(orCalls)].max_articles, MaxSubCrawl)

\* inside scrape_all of the sub-analysis: one more article has been extracted
SubPwExtract ==
    /\ pc = "sub_pw_crawl"
    /\ Len(crawled) < SubCrawlLimit
    /\ crawled' = Append(crawled, PwArticle(Len(crawled) + 1, SubKeyword))
    /\ started' = started \cup {"extract"}
    /\ UNCHANGED <<unitVars, crawlVars, inputVars, pc, sources, valid_sources, scrapers,
                   article_urls, urlIdx, articles_data, scoreVars, orVars, endVars>>

\* lines 740-743: the check of the crawl result of the sub-analysis
SubAfterCrawl(arts) ==
    IF arts = <<>>
    THEN /\ SubReturn([error |-> "no_articles", keyword |-> SubKeyword])
         /\ UNCHANGED articles_data
    ELSE /\ articles_data' = arts
         /\ pc' = "sub_score"
         /\ UNCHANGED subResult

\* lines 710-719: scrape_all returns within the timeout
SubPwComplete ==
    /\ pc = "sub_pw_crawl"
    /\ scrapers' = CleanupOnExit(scrapers, IF crawled = <<>> THEN "empty" ELSE "normal")
    /\ SubAfterCrawl(crawled)
    /\ UNCHANGED <<unitVars, crawlVars, inputVars, sources, valid_sources, crawled,
                   article_urls, urlIdx, scoreVars, orKeywords, orIdx, orAcc, orCalls,
                   started, endVars>>

\* lines 716-719: the crawl of the sub-analysis times out
SubPwTimeout ==
    /\ pc = "sub_pw_crawl"
    /\ scrapers' = CleanupOnExit(scrapers, "timeout")
    /\ timedOut' = TRUE
    /\ SubReturn([error |-> "timeout"])
    /\ UNCHANGED <<unitVars, crawlVars, inputVars, sources, valid_sources, crawlStateVars,
                   scoreVars, orKeywords, orIdx, orAcc, orCalls, started, outcome, result>>

\* lines 718-719, 737-738, 807-808: the awaited crawl or search raises (on the
\* Selenium path a TimeoutError too: it has no handler of its own)
SubCrawlRaise ==
    /\ pc \in {"sub_pw_crawl", "sub_sel_search"}
    /\ scrapers' = CleanupOnExit(scrapers, "exception")
    /\ SubReturn([error |-> "exception", keyword |-> SubKeyword])
    /\ UNCHANGED <<unitVars, crawlVars, inputVars, sources, valid_sources, crawlStateVars,
                   scoreVars, orKeywords, orIdx, orAcc, orCalls, started, endVars>>

\* lines 723-727: the Selenium search of the sub-analysis returns
SubSelSearchDone ==
    /\ pc = "sub_sel_search"
    /\ \E n \in 0..SubCrawlLimit :
          /\ article_urls' = UrlList(n)
          /\ urlIdx' = 1
    /\ pc' = "sub_sel_extract"
    /\ UNCHANGED <<unitVars, crawlVars, inputVars, sources, valid_sources, scrapers, crawled,
                   articles_data, scoreVars, orVars, started, endVars>>

\* lines 727-736: one round of the sequential extraction loop
SubSelExtract ==
    /\ pc = "sub_sel_extract"
    /\ urlIdx <= Len(article_urls)
    /\ \E o \in ScrapeOutcomes :
          crawled' = IF o = "raise" THEN crawled
                     ELSE Append(crawled,
                                 SelArticle(article_urls[urlIdx], SubKeyword, o, 0))
    /\ urlIdx' = urlIdx + 1
    /\ started' = started \cup {"extract"}
    /\ UNCHANGED <<unitVars, crawlVars, inputVars, pc, sources, valid_sources, scrapers,
                   article_urls, articles_data, scoreVars, orVars, endVars>>

\* lines 737-743: the loop is over, the scraper is cleaned up
SubSelExtractDone ==
    /\ pc = "sub_sel_extract"
    /\ urlIdx > Len(article_urls)
    /\ scrapers' = CleanupOnExit(scrapers, IF crawled = <<>> THEN "empty" ELSE "normal")
    /\ SubAfterCrawl(crawled)
    /\ UNCHANGED <<unitVars, crawlVars, inputVars, sources, valid_sources, crawled,
                   article_urls, urlIdx, scoreVars, orKeywords, orIdx, orAcc, orCalls,
                   started, endVars>>

\* the caller cancels the call while a sub-analysis awaits its crawl
SubCancel ==
    /\ pc \in {"sub_pw_crawl", "sub_sel_search"}
    /\ scrapers' = CleanupOnExit(scrapers, "cancel")
    /\ Raise("cancelled")
    /\ UNCHANGED <<unitVars, crawlVars, inputVars, sources, valid_sources, crawlStateVars,
                   scoreVars, orVars, started, timedOut>>

\* lines 749-765: one round of the scoring loop of the sub-analysis
SubScore ==
    /\ pc = "sub_score"
    /\ Len(analyzed_articles) < Len(articles_data)
    /\ \E o \in ScoreOutcomes :
          analyzed_articles' =
              Append(analyzed_articles,
                     Analyzed(articles_data[Len(analyzed_articles) + 1], o, 0))
    /\ started' = started \cup {"score"}
    /\ UNCHANGED <<unitVars, crawlVars, inputVars, pc, sources, valid_sources, scrapers,
                   crawlStateVars, all_comments, trend_result, token_usage,
                   overall_usage, orVars, endVars>>

\* lines 797-805: the result dictionary of a completed sub-analysis
SubSuccessResult(kw, arts, tokens) ==
    [keyword |-> kw, total_articles |-> Len(arts), articles |-> arts,
     sentiment_distribution |-> _calculate_sentiment_distribution(arts),
     keywords |-> "frequency_table", timing |-> "timing_info",
     token_usage |-> tokens]

\* lines 769-805: the per-article summaries and the return of the sub-analysis
SubSummarize ==
    /\ pc = "sub_score"
    /\ Len(analyzed_articles) = Len(articles_data)
    /\ \E outs \in [1..Len(analyzed_articles) -> SummaryOutcomes] :
          /\ analyzed_articles' = WithSummaries(analyzed_articles, outs)
          /\ token_usage' = AddUsages(token_usage, outs)
          /\ SubReturn(SubSuccessResult(SubKeyword, analyzed_articles', token_usage'))
    /\ started' = started \cup {"summarize"}
    /\ UNCHANGED <<unitVars, crawlVars, inputVars, sources, valid_sources, scrapers,
                   crawlStateVars, all_comments, trend_result, overall_usage,
                   orKeywords, orIdx, orAcc, orCalls, endVars>>

\* line 592: article["search_keyword"] = kw
Tagged(arts, kw) ==
    [i \in 1..Len(arts) |->
        [url |-> arts[i].url, keyword |-> arts[i].keyword,
         placeholder |-> arts[i].placeholder, sentiment |-> arts[i].sentiment,
         scored |-> arts[i].scored, summary |-> arts[i].summary,
         comment_count |-> arts[i].comment_count, search_keyword |-> kw]]

\* the merge with the sentiment counts assigned instead of added
Merged_Overwrite(acc, kw, res) ==
    [all_articles |-> acc.all_articles \o Tagged(res.articles, kw),
     combined_sentiment |-> res.sentiment_distribution,
     keyword_results |->
        Append(acc.keyword_results,
               [keyword |-> kw, article_count |-> res.total_articles,
                sentiment |-> res.sentiment_distribution]),
     token_usage |-> AddUsage(acc.token_usage, res.token_usage)]

\* lines 583-612: a sub-analysis without error is merged into the accumulators
Merged(acc, kw, res) ==
    [all_articles |-> acc.all_articles \o Tagged(res.articles, kw),
     combined_sentiment |->
        [positive |-> acc.combined_sentiment.positive
                        + res.sentiment_distribution.positive,
         negative |-> acc.combined_sentiment.negative
                        + res.sentiment_distribution.negative,
         neutral |-> acc.combined_sentiment.neutral
                        + res.sentiment_distribution.neutral],
     keyword_results |->
        Append(acc.keyword_results,
               [keyword |-> kw, article_count |-> res.total_articles,
                sentiment |-> res.sentiment_distribution]),
     token_usage |-> AddUsage(acc.token_usage, res.token_usage)]

\* lines 583-616: the OR loop takes the value of the sub-analysis
OrMerge ==
    /\ pc = "or_merge"
    /\ orAcc' = IF "error" \in DOMAIN subResult THEN orAcc
                ELSE Merged(orAcc, SubKeyword, subResult)
    /\ orCalls' = [orCalls EXCEPT ![Len(orCalls)].result = subResult]
    /\ orIdx' = orIdx + 1
    /\ pc' = "or_next"
    /\ UNCHANGED <<unitVars, crawlVars, inputVars, sources, valid_sources, scrapers,
                   crawlStateVars, scoreVars, orKeywords, subResult, started,
                   endVars>>

\* lines 651-664: the result dictionary of a completed OR analysis
OrSuccessResult(kws, srcs, acc, summary, tokens) ==
    [keyword |-> JoinOr(kws), search_type |-> "or",
     keyword_results |-> acc.keyword_results, sources |-> srcs,
     total_articles |-> Len(acc.all_articles), articles |-> acc.all_articles,
     sentiment_distribution |-> acc.combined_sentiment,
     keywords |-> "frequency_table", overall_summary |-> summary,
     timing |-> "timing_info", token_usage |-> tokens, analyzed_at |-> "now"]

\* lines 618-664: after the loop: the error of an empty merge, or the combined
\* summary and the merged result
OrFinish ==
    /\ pc = "or_next"
    /\ orIdx > Len(orKeywords)
    /\ IF orAcc.all_articles = <<>>
       THEN /\ Return(ErrorResult("not_found", JoinOr(orKeywords), sources))
            /\ UNCHANGED overall_usage
       ELSE \E overall_result \in SummaryOutcomes :
               /\ overall_usage' = overall_result.usage
               /\ Return(OrSuccessResult(orKeywords, sources, orAcc,
                                         overall_result.summary,
                                         AddUsage(orAcc.token_usage,
                                                  overall_result.usage)))
    /\ started' = started \cup (IF orAcc.all_articles = <<>> THEN {} ELSE {"overall"})
    /\ UNCHANGED <<unitVars, crawlVars, inputVars, sources, valid_sources, scrapers,
                   crawlStateVars, analyzed_articles, all_comments, trend_result,
                   token_usage, orVars, timedOut>>

OrPathNext ==
    \/ OrNext
    \/ SubPwExtract
    \/ SubPwComplete
    \/ SubPwTimeout
    \/ SubCrawlRaise
    \/ SubSelSearchDone
    \/ SubSelExtract
    \/ SubSelExtractDone
    \/ SubCancel
    \/ SubScore
    \/ SubSummarize
    \/ OrMerge
    \/ OrFinish

(***************************************************************************)
(* Properties of the coordinator, checked under Spec                       *)
(***************************************************************************)
Finished == pc = "done"

Returned == pc = "done" /\ outcome = "returned"

\* C1: analyze_news_async never raises: unless its caller cancels it, a call
\* that has ended has ended by returning a result object, whatever the keyword,
\* the sources, max_articles and the failures inside the pipeline.
C1_NeverRaises ==
    (Finished /\ outcome # "cancelled") => outcome = "returned"

IsErrorShape(r) ==
    /\ {"error", "keyword", "sources"} \subseteq DOMAIN r
    /\ "articles" \notin DOMAIN r

IsSuccessShape(r) ==
    /\ {"keyword", "sources", "articles", "sentiment_distribution",
        "trend_analysis", "keywords", "overall_summary", "timing",
        "token_usage"} \subseteq DOMAIN r
    /\ "error" \notin DOMAIN r

\* C2: every value analyze_news_async returns, for a plain and for an
\* OR-compound query, is an error object with error, keyword and sources and no
\* articles, or a success object with keyword, sources, articles, sentiment
\* distribution, trend analysis, keywords, overall summary, timing and token
\* usage and no error.
C2_TwoShapes ==
    Returned => (IsErrorShape(result) \/ IsSuccessShape(result))

\* the crawl of the scraper created last is still inside its try block
InCrawl ==
    pc \in {"pw_crawl", "sel_search", "sel_extract",
            "sub_pw_crawl", "sub_sel_search", "sub_sel_extract"}

\* C4: cleanup() has been invoked for every scraper object whose try block has
\* been left, whichever way it was left (normal completion, empty result,
\* timeout, exception, cancellation); so every scraper created by
\* analyze_news_async or _analyze_single_keyword is cleaned up before the call
\* ends.
C4_CleanupOnEveryExit ==
    \A i \in 1..Len(scrapers) :
        ~scrapers[i].cleaned => (InCrawl /\ i = Len(scrapers))

\* a call cancelled during its second sub-analysis: both scrapers cleaned up
C4_Witness ==
    /\ Finished
    /\ outcome = "cancelled"
    /\ Len(scrapers) = 2
    /\ \A i \in 1..Len(scrapers) : scrapers[i].cleaned

\* C5: once the timeout around a crawl has fired before scrape_all completed,
\* the call has ended with the structured timeout error carrying keyword and
\* sources and no articles, so that no scoring, aggregation or summarizing
\* follows the timeout.
C5_TimeoutYieldsError ==
    timedOut =>
        /\ Returned
        /\ result = ErrorResult("timeout", keyword, valid_sources)
        /\ "articles" \notin DOMAIN result

\* a valid request in which every requested source is unsupported
AllSourcesUnsupported ==
    /\ validate_input(keyword, KeywordMaxLength)
    /\ ~sourcesArg.isNone
    /\ sourcesArg.list # <<>>
    /\ FilterSources(sourcesArg.list, <<>>, <<>>).valid = <<>>

\* C6: for a request, plain or OR-compound, whose requested sources are all
\* unsupported, no search or extraction is ever started, and the value returned
\* is the structured error listing the rejected and the supported sources.
C6_UnsupportedSourcesRejected ==
    AllSourcesUnsupported =>
        /\ started = {}
        /\ Returned =>
              /\ {"error", "rejected_sources", "supported_sources"}
                    \subseteq DOMAIN result
              /\ result.rejected_sources = sourcesArg.list

\* the call has returned the merged result of an OR query
OrReturned == Returned /\ "search_type" \in DOMAIN result

\* C11: for an OR query with n >= 2 sub-keywords, when the coordinator returns
\* its merged result it has run exactly one sub-analysis per sub-keyword, in
\* order, each with the article budget max(3, max_articles // n); the result
\* has search_type 'or' and its keyword_results has one entry for every
\* sub-keyword of the query, in order.
C11_OrFanOut ==
    OrReturned =>
        LET n == Len(orKeywords) IN
        /\ n >= 2
        /\ Len(orCalls) = n
        /\ \A i \in 1..n :
              /\ orCalls[i].keyword = orKeywords[i]
              /\ orCalls[i].max_articles =
                    (IF max_articles \div n > 3 THEN max_articles \div n ELSE 3)
        /\ result.search_type = "or"
        /\ Len(result.keyword_results) = n
        /\ \A i \in 1..n : result.keyword_results[i].keyword = orKeywords[i]

\* the sub-analysis of a call returned a result without error
Succeeded(call) == "error" \notin DOMAIN call.result

\* an article of a sub-analysis with the tag of the sub-keyword that found it
WithTag(article, kw) ==
    [f \in DOMAIN article \cup {"search_keyword"} |->
        IF f = "search_keyword" THEN kw ELSE article[f]]

\* the tagged articles of the sub-analyses that succeeded, in call order
RECURSIVE ArticlesOfCalls(_)
ArticlesOfCalls(calls) ==
    IF calls = <<>> THEN <<>>
    ELSE (IF Succeeded(Head(calls))
          THEN [i \in 1..Len(Head(calls).result.articles) |->
                   WithTag(Head(calls).result.articles[i], Head(calls).keyword)]
          ELSE <<>>)
         \o ArticlesOfCalls(Tail(calls))

\* the sum over the sub-analyses that succeeded of the count of one label
RECURSIVE LabelSum(_, _)
LabelSum(calls, label) ==
    IF calls = <<>> THEN 0
    ELSE (IF Succeeded(Head(calls))
          THEN Head(calls).result.sentiment_distribution[label] ELSE 0)
         + LabelSum(Tail(calls), label)

\* the sum over the sub-analyses that succeeded of one token counter
RECURSIVE CounterSum(_, _)
CounterSum(calls, counter) ==
    IF calls = <<>> THEN 0
    ELSE (IF Succeeded(Head(calls))
          THEN Head(calls).result.token_usage[counter] ELSE 0)
         + CounterSum(Tail(calls), counter)

\* C12: in the merged OR result, articles is the concatenation, in sub-keyword
\* order, of the articles of the sub-analyses that succeeded, each tagged with
\* its sub-keyword; every sentiment count is the sum of that label's counts
\* over those sub-analyses; and each of the prompt, completion and total
\* token counters is the sum over those sub-analyses plus the usage of the one
\* combined summary.
C12_MergeIsSum ==
    OrReturned =>
        /\ result.articles = ArticlesOfCalls(orCalls)
        /\ result.total_articles = Len(result.articles)
        /\ \A label \in SentimentLabels :
              result.sentiment_distribution[label] = LabelSum(orCalls, label)
        /\ \A counter \in {"prompt_tokens", "completion_tokens", "total_tokens"} :
              result.token_usage[counter] =
                  CounterSum(orCalls, counter) + overall_usage[counter]

\* two sub-analyses succeeded with articles of different sentiment and with
\* token usage, and the combined summary reported usage too
C12_Witness ==
    /\ OrReturned
    /\ Len(orCalls) = 2
    /\ \A i \in 1..2 :
          /\ Succeeded(orCalls[i])
          /\ orCalls[i].result.articles # <<>>
          /\ orCalls[i].result.token_usage = CallUsage
    /\ orCalls[1].result.sentiment_distribution.positive = 1
    /\ orCalls[2].result.sentiment_distribution.negative = 1
    /\ overall_usage = CallUsage
    /\ Len(result.articles) = 2

\* the call has returned a success result, of a plain or of an OR analysis
SuccessReturned == Returned /\ "articles" \in DOMAIN result

\* the articles of a list that are not the extraction-failure placeholder
Extracted(arts) == {i \in 1..Len(arts) : ~arts[i].placeholder}

\* C29: in every success result, plain or OR-merged, the positive, negative and
\* neutral counts of sentiment_distribution add up to total_articles, and
\* total_articles is the length of articles.
C29_DistributionCountsArticles ==
    SuccessReturned =>
       /\ LET d == result.sentiment_distribution
          IN  d.positive + d.negative + d.neutral = result.total_articles
       /\ result.total_articles = Len(result.articles)

\* an OR analysis has returned two merged articles, one of them neutral and
\* one positive
C29_Witness ==
    /\ SuccessReturned
    /\ "search_type" \in DOMAIN result
    /\ result.total_articles = 2
    /\ result.sentiment_distribution.neutral = 1
    /\ result.sentiment_distribution.positive = 1

\* C26: a URL whose Selenium extraction fails is dropped: no article of a
\* success result is the extraction-failure placeholder, and total_articles and
\* the sentiment distribution count the extracted articles only.
C26_FailedExtractionDropped ==
    SuccessReturned =>
       /\ \A i \in 1..Len(result.articles) : ~result.articles[i].placeholder
       /\ result.total_articles = Cardinality(Extracted(result.articles))
       /\ LET d == result.sentiment_distribution
          IN  d.positive + d.negative + d.neutral
                 = Cardinality(Extracted(result.articles))

PlainSuccess == SuccessReturned /\ "search_type" \notin DOMAIN result

\* the comment_count values of the articles, added up
RECURSIVE CommentTotal(_)
CommentTotal(arts) ==
    IF arts = <<>> THEN 0 ELSE Head(arts).comment_count + CommentTotal(Tail(arts))

\* C19: every article of a success result has a comment_count that is the
\* number of its scored comments: at most 10 and at most the comments crawled
\* for it, and the comment counts add up to the comments the trend is made
\* of; an article without comments is kept with comment_count 0, and a success
\* result with such an article carries a trend analysis.
C19_CommentCountAndTrend ==
    /\ SuccessReturned =>
          \A i \in 1..Len(result.articles) :
             /\ result.articles[i].comment_count <= CommentCap
             /\ result.articles[i].comment_count = 0 =>
                   "trend_analysis" \in DOMAIN result
    /\ PlainSuccess =>
          /\ Len(result.articles) = Len(articles_data)
          /\ \A i \in 1..Len(result.articles) :
                result.articles[i].comment_count <= articles_data[i].comments
          /\ CommentTotal(result.articles) = all_comments
          /\ result.trend_analysis.total_comments = all_comments

\* the scoring of an article failed or gave nothing but the default
Unscored(article) == ~article.scored

\* C20: a failure while scoring an article or a comment does not end the
\* session and removes no article: a success result has as many articles as
\* were crawled, the same ones in the same order, an article whose scoring
\* raised is among them with the neutral default, and a session that scored
\* articles ends in an error only when a later stage, the trend analysis,
\* raised.
C20_ScoringFailureAbsorbed ==
    /\ PlainSuccess =>
          /\ Len(result.articles) = Len(articles_data)
          /\ \A i \in 1..Len(result.articles) :
                /\ result.articles[i].url = articles_data[i].url
                /\ Unscored(result.articles[i]) =>
                      result.articles[i].sentiment = "neutral"
    /\ (pc = "or_merge" /\ "error" \notin DOMAIN subResult) =>
          /\ Len(subResult.articles) = Len(articles_data)
          /\ \A i \in 1..Len(subResult.articles) :
                /\ subResult.articles[i].url = articles_data[i].url
                /\ Unscored(subResult.articles[i]) =>
                      subResult.articles[i].sentiment = "neutral"
    /\ OrReturned =>
          /\ ("articles" \in DOMAIN result) =>
                /\ result.articles = ArticlesOfCalls(orCalls)
                /\ \A i \in 1..Len(result.articles) :
                      Unscored(result.articles[i]) =>
                         result.articles[i].sentiment = "neutral"
    /\ (Returned /\ "error" \in DOMAIN result /\ "score" \in started) =>
          "trend" \in started

\* two articles were crawled, one with a comment; the scoring of the first
\* article raised and the comment of the second was not scored, and both
\* articles are in the success result
C20_Witness ==
    /\ PlainSuccess
    /\ Len(articles_data) = 2
    /\ Len(result.articles) = 2
    /\ Unscored(result.articles[1])
    /\ result.articles[1].sentiment = "neutral"
    /\ result.articles[2].sentiment = "positive"
    /\ articles_data[2].comments = 1
    /\ result.articles[2].comment_count = 0

\* the stage a step of the pipeline belongs to: Searching 1, Extracting 2,
\* Scoring 3, Aggregating 4, Summarizing 5
StageOfStep(s) ==
    CASE s = "search" -> 1
      [] s = "extract" -> 2
      [] s = "score" -> 3
      [] s = "trend" -> 4
      [] s \in {"summarize", "overall"} -> 5

\* the stage the call is in: Validated 0, ..., Completed or Failed 6; the
\* Playwright crawl searches and extracts inside one awaited scrape_all
StageOfPc(p) ==
    CASE p \in {"entry", "filter", "start_crawl", "or_next"} -> 0
      [] p \in {"sel_search", "sub_sel_search", "pw_crawl", "sub_pw_crawl"} -> 1
      [] p \in {"sel_extract", "sub_sel_extract"} -> 2
      [] p \in {"score", "sub_score"} -> 3
      [] p = "trend" -> 4
      [] p \in {"overall", "or_merge"} -> 5
      [] p = "done" -> 6

\* C21: a session passes through Validated, Searching, Extracting, Scoring,
\* Aggregating, Summarizing, Completed in that order: a step starts no stage
\* that lies before a stage already started (no summarizing call before the
\* trend aggregation), the call never moves back to an earlier stage, and the
\* end (Completed or Failed) is left by no step.
C21_StagesInOrder ==
    [][/\ \A s \in started' \ started : \A t \in started :
             StageOfStep(t) <= StageOfStep(s)
       /\ StageOfPc(pc') >= StageOfPc(pc)]_vars

\* the fields the returns of lines 261-265 (timeout) and 463-467 (unexpected
\* exception) populate
TimeoutFields == DOMAIN ErrorResult("timeout", keyword, valid_sources)

ExceptionFields == DOMAIN ErrorResult("exception", keyword, sources)

\* the call returned because the crawl found no article
ZeroResults ==
    /\ Returned
    /\ "error" \in DOMAIN result
    /\ result.error \in {"not_found", "collect_failed"}

\* C22: the three outcomes can be told apart by the populated fields alone:
\* the fields of a result returned because the crawl found no article are not
\* the fields of a timeout or of an unexpected exception, and the fields of a
\* success result are neither those nor the fields of a zero-results return.
C22_OutcomesDistinguishable ==
    /\ ZeroResults => DOMAIN result \notin {TimeoutFields, ExceptionFields}
    /\ SuccessReturned =>
          DOMAIN result \notin
              {TimeoutFields, ExceptionFields,
               DOMAIN ErrorResult("collect_failed", keyword, sources)}

(***************************************************************************)
(* agent/tools/news_scraper: PlaywrightNewsScraper, PlaywrightBaseScraper, *)
(* PlaywrightNaverScraper and PlaywrightGoogleScraper.  A task runs from   *)
(* one await to the next in one step; an awaited Playwright call either    *)
(* completes or raises.                                                    *)
(***************************************************************************)
DefaultMaxConcurrent == 5

Scrapers == {NaverKo, GoogleKo}

Url(s, k) == [source |-> s, k |-> k]

NoUrl == [source |-> None, k |-> 0]

\* the list of n distinct URLs a search of source s returns
UrlsOf(s, n) == [k \in 1..n |-> Url(s, k)]

\* a coroutine object that has not run yet
NewTask(kind, s, url) ==
    [kind |-> kind, source |-> s, url |-> url, pc |-> "new", ctx |-> 0,
     urls |-> <<>>, article |-> NoValue, status |-> "pending"]

\* search_news_parallel, lines 76-79: one search coroutine per valid source
SearchTasks(valid) ==
    (IF SeqContains(valid, NaverKo)
     THEN <<NewTask("search", NaverKo, NoUrl)>> ELSE <<>>)
    \o (IF SeqContains(valid, GoogleKo)
        THEN <<NewTask("search", GoogleKo, NoUrl)>> ELSE <<>>)

\* an extraction coroutine for a URL no search has returned
ExtractTasks_Unsearched(m) ==
    <<NewTask("extract", NaverKo, Url(NaverKo, MaxUrls + 1))>>

\* extract_articles_parallel, lines 120-123: one extraction coroutine per URL,
\* the URLs of Naver first
ExtractTasks(m) ==
    [j \in 1..(Len(m[NaverKo]) + Len(m[GoogleKo])) |->
        IF j <= Len(m[NaverKo])
        THEN NewTask("extract", NaverKo, m[NaverKo][j])
        ELSE NewTask("extract", GoogleKo, m[GoogleKo][j - Len(m[NaverKo])])]

CrawlSourceArgs == {<<NaverKo>>, <<"google">>, <<NaverKo, GoogleKo>>, <<"Daum">>}

UrlMaps ==
    {[s \in Scrapers |-> UrlsOf(s, n[s])] :
        n \in {f \in [Scrapers -> 0..MaxUrls] : f[NaverKo] + f[GoogleKo] <= MaxUrls}}

NoRefs == [s \in Scrapers |-> 0]

\* max_length of the validate_input call of the search_news methods
ScraperKeywordMaxLength == 100

\* a keyword longer than the scrapers accept and no longer than the
\* coordinator accepts
KwOver100 == [i \in 1..(ScraperKeywordMaxLength + 1) |-> "a"]

\* the keywords analyze_news_async hands to the crawl, which have passed its
\* validate_input(keyword, max_length=200)
CrawlKeywords == {KwAI, KwOver100}

CrawlInit ==
    /\ pKeyword = <<>>
    /\ pResult = [type |-> "none", keywords |-> <<>>]
    /\ pPc = "idle"
    /\ CoordIdle
    /\ ArticleIdle
    /\ ScorerIdle
    /\ ToolIdle
    /\ SeleniumIdle
    /\ entry \in {"scrape_all", "extract_articles_parallel"}
    /\ crawlKeyword \in CrawlKeywords
    /\ keywordOk = validate_input(crawlKeyword, ScraperKeywordMaxLength)
    /\ IF entry = "scrape_all"
       THEN /\ requested \in CrawlSourceArgs
            /\ max_concurrent = DefaultMaxConcurrent
            /\ url_map = [s \in Scrapers |-> <<>>]
            /\ tasks = SearchTasks(NormalizeSources(requested, <<>>))
            /\ phase = "search"
            /\ semaphore = 0
       ELSE /\ keywordOk
            /\ requested = <<>>
            /\ max_concurrent \in 1..MaxConc
            /\ url_map \in UrlMaps
            /\ tasks = ExtractTasks(url_map)
            /\ phase = "extract"
            /\ semaphore = max_concurrent
    /\ articles = <<>>
    /\ searchOutcome = "none"
    /\ extractOutcome = "none"
    /\ crawlOutcome = "running"
    /\ _playwright = NoRefs
    /\ browser = NoRefs
    /\ context = NoRefs
    /\ openPlaywrights = {}
    /\ openBrowsers = {}
    /\ openContexts = {}
    /\ openPages = {}
    /\ cleanupPc = [s \in Scrapers |-> "idle"]

Running == phase \in {"search", "extract"}

Pending(i) == i \in 1..Len(tasks) /\ tasks[i].status = "pending"

AllTasksDone == \A i \in 1..Len(tasks) : tasks[i].status # "pending"

\* the task is inside `async with semaphore`, that is, inside extract_article
InProgress(t) == t.kind = "extract" /\ t.status = "pending" /\ t.pc # "new"

NumInProgress == Cardinality({i \in 1..Len(tasks) : InProgress(tasks[i])})

\* whether `async with semaphore` lets a task in
SemaphoreFree_Always(sem) == TRUE

SemaphoreFree(sem) == sem > 0

\* acquire on entering and release on leaving `async with semaphore`
SemaphoreAfter(sem, old, new) ==
    sem + (IF InProgress(old) THEN 1 ELSE 0) - (IF InProgress(new) THEN 1 ELSE 0)

Goto(t, at) == [t EXCEPT !.pc = at]

Ended(t, how) == [t EXCEPT !.pc = "done", !.status = how]

\* task i moves on
Step(i, new) ==
    /\ tasks' = [tasks EXCEPT ![i] = new]
    /\ semaphore' = SemaphoreAfter(semaphore, tasks[i], new)

\* new_page() after setup() has returned: self.context.new_page(), an
\* AttributeError when self.context is None
CallNewPage(t) ==
    IF context[t.source] = 0 THEN Ended(t, "raised")
    ELSE [t EXCEPT !.pc = "newpage", !.ctx = context[t.source]]

\* `await self.setup(); page = await self.new_page()` up to the first await
CallSetup(t) ==
    IF browser[t.source] = 0 THEN Goto(t, "su_start") ELSE CallNewPage(t)

\* URLs the searches have returned so far
RECURSIVE CountUrls(_)
CountUrls(ts) ==
    IF ts = <<>> THEN 0 ELSE Len(Head(ts).urls) + CountUrls(Tail(ts))

\* a coroutine starts: an extraction enters the semaphore first
Begin(i) ==
    /\ Running
    /\ Pending(i)
    /\ tasks[i].pc = "new"
    /\ tasks[i].kind = "extract" => SemaphoreFree(semaphore)
    /\ LET t == tasks[i] IN
       Step(i, IF t.kind = "search" /\ ~keywordOk THEN Ended(t, "returned")
               ELSE IF t.kind = "search" /\ t.source = GoogleKo THEN Goto(t, "rss")
               ELSE CallSetup(t))
    /\ UNCHANGED <<unitVars, coordVars, crawlInputVars, phase, callVars,
                   refVars, openVars, cleanupPc>>

\* setup(): async_playwright().start() completes or raises
SetupStart(i) ==
    /\ Running
    /\ Pending(i)
    /\ tasks[i].pc = "su_start"
    /\ \E ok \in BOOLEAN :
          IF ok
          THEN /\ _playwright' = [_playwright EXCEPT ![tasks[i].source] = i]
               /\ openPlaywrights' = openPlaywrights \cup {i}
               /\ Step(i, Goto(tasks[i], "su_launch"))
          ELSE /\ Step(i, Ended(tasks[i], "raised"))
               /\ UNCHANGED <<_playwright, openPlaywrights>>
    /\ UNCHANGED <<unitVars, coordVars, crawlInputVars, phase, callVars,
                   browser, context, openBrowsers, openContexts, openPages,
                   cleanupPc>>

\* setup(): chromium.launch() completes or raises
SetupLaunch(i) ==
    /\ Running
    /\ Pending(i)
    /\ tasks[i].pc = "su_launch"
    /\ \E ok \in BOOLEAN :
          IF ok
          THEN /\ browser' = [browser EXCEPT ![tasks[i].source] = i]
               /\ openBrowsers' = openBrowsers \cup {i}
               /\ Step(i, Goto(tasks[i], "su_ctx"))
          ELSE /\ Step(i, Ended(tasks[i], "raised"))
               /\ UNCHANGED <<browser, openBrowsers>>
    /\ UNCHANGED <<unitVars, coordVars, crawlInputVars, phase, callVars,
                   _playwright, context, openPlaywrights, openContexts,
                   openPages, cleanupPc>>

\* setup(): browser.new_context() completes or raises
SetupContext(i) ==
    /\ Running
    /\ Pending(i)
    /\ tasks[i].pc = "su_ctx"
    /\ \E ok \in BOOLEAN :
          IF ok
          THEN /\ context' = [context EXCEPT ![tasks[i].source] = i]
               /\ openContexts' = openContexts \cup {i}
               /\ Step(i, Goto(tasks[i], "su_route"))
          ELSE /\ Step(i, Ended(tasks[i], "raised"))
               /\ UNCHANGED <<context, openContexts>>
    /\ UNCHANGED <<unitVars, coordVars, crawlInputVars, phase, callVars,
                   _playwright, browser, openPlaywrights, openBrowsers,
                   openPages, cleanupPc>>

\* setup(): the context.route() calls complete, setup() returns and new_page()
\* is called; or they raise
SetupRoute(i) ==
    /\ Running
    /\ Pending(i)
    /\ tasks[i].pc = "su_route"
    /\ \E ok \in BOOLEAN :
          Step(i, IF ok THEN CallNewPage(tasks[i]) ELSE Ended(tasks[i], "raised"))
    /\ UNCHANGED <<unitVars, coordVars, crawlInputVars, phase, callVars,
                   refVars, openVars, cleanupPc>>

\* new_page(): context.new_page() completes, the try block is entered; or it
\* raises
NewPage(i) ==
    /\ Running
    /\ Pending(i)
    /\ tasks[i].pc = "newpage"
    /\ \E ok \in BOOLEAN :
          IF ok
          THEN /\ openPages' = openPages \cup {[id |-> i, ctx |-> tasks[i].ctx]}
               /\ Step(i, Goto(tasks[i], "page"))
          ELSE /\ Step(i, Ended(tasks[i], "raised"))
               /\ UNCHANGED openPages
    /\ UNCHANGED <<unitVars, coordVars, crawlInputVars, phase, callVars,
                   refVars, openPlaywrights, openBrowsers, openContexts,
                   cleanupPc>>

\* the try block of search_news / extract_article: what was found on the page
\* (an exception in the block is caught and leaves what was found so far)
PageWork(i) ==
    /\ Running
    /\ Pending(i)
    /\ tasks[i].pc = "page"
    /\ LET t == tasks[i] IN
       IF t.kind = "search"
       THEN \E n \in 0..(MaxUrls - CountUrls(tasks)) :
               Step(i, [t EXCEPT !.pc = "closing", !.urls = UrlsOf(t.source, n)])
       ELSE \E found \in BOOLEAN :
               Step(i, [t EXCEPT !.pc = "closing",
                                 !.article = IF found
                                             THEN [url |-> t.url, source |-> t.source]
                                             ELSE NoValue])
    /\ UNCHANGED <<unitVars, coordVars, crawlInputVars, phase, callVars,
                   refVars, openVars, cleanupPc>>

\* the finally clause: page.close() completes and the coroutine returns, or
\* it raises; after a cancellation the coroutine ends cancelled
PageClose(i) ==
    /\ Pending(i)
    /\ \/ Running /\ tasks[i].pc = "closing"
       \/ phase = "cancelling" /\ tasks[i].pc = "closing_cancelled"
    /\ \E ok \in BOOLEAN :
          /\ openPages' = IF ok THEN {p \in openPages : p.id # i} ELSE openPages
          /\ Step(i, Ended(tasks[i],
                           IF ~ok THEN "raised"
                           ELSE IF tasks[i].pc = "closing" THEN "returned"
                           ELSE "cancelled"))
    /\ UNCHANGED <<unitVars, coordVars, crawlInputVars, phase, callVars,
                   refVars, openPlaywrights, openBrowsers, openContexts,
                   cleanupPc>>

\* search_news of the Google scraper: the RSS request, whose failure is caught
Rss(i) ==
    /\ Running
    /\ Pending(i)
    /\ tasks[i].pc = "rss"
    /\ \E n \in 0..(MaxUrls - CountUrls(tasks)) :
          Step(i, [Ended(tasks[i], "returned")
                      EXCEPT !.urls = UrlsOf(tasks[i].source, n)])
    /\ UNCHANGED <<unitVars, coordVars, crawlInputVars, phase, callVars,
                   refVars, openVars, cleanupPc>>

\* gather(..., return_exceptions=True) and lines 88-93: what a finished search
\* coroutine contributes to search_news_parallel
GatherResult_Propagate(t) ==
    [raises |-> t.status = "raised", urls |-> t.urls]

GatherResult(t) ==
    [raises |-> FALSE,
     urls |-> IF t.status = "raised" THEN <<>> ELSE t.urls]

\* the cleanup pass the caller of the crawl runs in its finally clause begins
StartCleanup ==
    /\ phase' = "cleanup"
    /\ cleanupPc' = [s \in Scrapers |-> "start"]

\* search_news_parallel returns and extract_articles_parallel creates its
\* coroutines and its semaphore (lines 83-99, 116-129, 174-177)
SearchGather ==
    /\ phase = "search"
    /\ AllTasksDone
    /\ LET res == [i \in 1..Len(tasks) |-> GatherResult(tasks[i])] IN
       IF \E i \in 1..Len(tasks) : res[i].raises
       THEN /\ searchOutcome' = "raised"
            /\ crawlOutcome' = "raised"
            /\ StartCleanup
            /\ UNCHANGED <<url_map, tasks, semaphore>>
       ELSE /\ url_map' =
                  [s \in Scrapers |->
                      IF \E i \in 1..Len(tasks) : tasks[i].source = s
                      THEN res[CHOOSE i \in 1..Len(tasks) : tasks[i].source = s].urls
                      ELSE <<>>]
            /\ searchOutcome' = "returned"
            /\ tasks' = tasks \o ExtractTasks(url_map')
            /\ semaphore' = max_concurrent
            /\ phase' = "extract"
            /\ UNCHANGED <<crawlOutcome, cleanupPc>>
    /\ UNCHANGED <<unitVars, coordVars, crawlInputVars, articles, extractOutcome,
                   refVars, openVars>>

\* lines 131-138: what extract_with_semaphore returns for a finished extraction
extract_with_semaphore(t) ==
    IF t.status = "raised" THEN NoValue ELSE t.article

\* lines 147-149: the filter on the gathered results
KeepResult_All(r) == TRUE

KeepResult(r) == r # NoValue

IsExtract(t) == t.kind = "extract"

\* the gathered results of the extraction coroutines, in creation order
GatheredResults ==
    LET ex == SelectSeq(tasks, IsExtract) IN
    [j \in 1..Len(ex) |-> extract_with_semaphore(ex[j])]

\* extract_articles_parallel and scrape_all return (lines 141-154, 179)
ExtractGather ==
    /\ phase = "extract"
    /\ AllTasksDone
    /\ articles' = SelectSeq(GatheredResults, KeepResult)
    /\ extractOutcome' = "returned"
    /\ crawlOutcome' = "returned"
    /\ StartCleanup
    /\ UNCHANGED <<unitVars, coordVars, crawlInputVars, tasks, semaphore,
                   url_map, searchOutcome, refVars, openVars>>

\* the wait_for around the crawl times out, or the caller is cancelled: the
\* gather in progress cancels its coroutines
Timeout ==
    /\ Running
    /\ phase' = "cancelling"
    /\ UNCHANGED <<unitVars, coordVars, crawlInputVars, tasks, semaphore,
                   callVars, refVars, openVars, cleanupPc>>

\* CancelledError arrives at the await the coroutine stands at: in the try
\* block it runs the finally clause, in page.close() the close is interrupted,
\* elsewhere the coroutine ends
CancelTask(i) ==
    /\ phase = "cancelling"
    /\ Pending(i)
    /\ tasks[i].pc # "closing_cancelled"
    /\ IF tasks[i].pc = "page"
       THEN /\ Step(i, Goto(tasks[i], "closing_cancelled"))
            /\ UNCHANGED openPages
       ELSE IF tasks[i].pc = "closing"
       THEN /\ Step(i, Ended(tasks[i], "cancelled"))
            /\ \E closed \in BOOLEAN :
                  openPages' = IF closed THEN {p \in openPages : p.id # i}
                               ELSE openPages
       ELSE /\ Step(i, Ended(tasks[i], "cancelled"))
            /\ UNCHANGED openPages
    /\ UNCHANGED <<unitVars, coordVars, crawlInputVars, phase, callVars,
                   refVars, openPlaywrights, openBrowsers, openContexts,
                   cleanupPc>>

\* every coroutine has ended: CancelledError leaves the crawl
CancelDone ==
    /\ phase = "cancelling"
    /\ AllTasksDone
    /\ crawlOutcome' = "cancelled"
    /\ StartCleanup
    /\ UNCHANGED <<unitVars, coordVars, crawlInputVars, tasks, semaphore,
                   url_map, articles, searchOutcome, extractOutcome, refVars,
                   openVars>>

\* cleanup() of PlaywrightBaseScraper: the next close it awaits after `stage`
CleanupFrom(stage, c, b, p) ==
    IF stage = "start" /\ c # 0 THEN "ctx"
    ELSE IF stage \in {"start", "ctx"} /\ b # 0 THEN "br"
    ELSE IF p # 0 THEN "pw"
    ELSE "done"

\* closing a context closes its pages
PagesOutside(ctxs) == {p \in openPages : p.ctx \notin ctxs}

\* cleanup() of one scraper runs up to its first await
CleanupStart(s) ==
    /\ phase = "cleanup"
    /\ cleanupPc[s] = "start"
    /\ cleanupPc' = [cleanupPc EXCEPT
                        ![s] = CleanupFrom("start", context[s], browser[s],
                                           _playwright[s])]
    /\ UNCHANGED <<unitVars, coordVars, crawlInputVars, phase, tasks, semaphore,
                   callVars, refVars, openVars>>

\* lines 81-83: context.close() completes, or raises into the except clause
CleanupContext(s) ==
    /\ phase = "cleanup"
    /\ cleanupPc[s] = "ctx"
    /\ \E ok \in BOOLEAN :
          IF ok
          THEN /\ openContexts' = openContexts \ {context[s]}
               /\ openPages' = PagesOutside({context[s]})
               /\ context' = [context EXCEPT ![s] = 0]
               /\ cleanupPc' = [cleanupPc EXCEPT
                                   ![s] = CleanupFrom("ctx", 0, browser[s],
                                                      _playwright[s])]
          ELSE /\ cleanupPc' = [cleanupPc EXCEPT ![s] = "done"]
               /\ UNCHANGED <<openContexts, openPages, context>>
    /\ UNCHANGED <<unitVars, coordVars, crawlInputVars, phase, tasks, semaphore,
                   callVars, _playwright, browser, openPlaywrights, openBrowsers>>

\* lines 84-86: browser.close() completes (its context and pages close with
\* it), or raises into the except clause
CleanupBrowser(s) ==
    /\ phase = "cleanup"
    /\ cleanupPc[s] = "br"
    /\ \E ok \in BOOLEAN :
          IF ok
          THEN /\ openBrowsers' = openBrowsers \ {browser[s]}
               /\ openContexts' = openContexts \ {browser[s]}
               /\ openPages' = PagesOutside({browser[s]})
               /\ browser' = [browser EXCEPT ![s] = 0]
               /\ cleanupPc' = [cleanupPc EXCEPT
                                   ![s] = CleanupFrom("br", 0, 0, _playwright[s])]
          ELSE /\ cleanupPc' = [cleanupPc EXCEPT ![s] = "done"]
               /\ UNCHANGED <<openBrowsers, openContexts, openPages, browser>>
    /\ UNCHANGED <<unitVars, coordVars, crawlInputVars, phase, tasks, semaphore,
                   callVars, _playwright, context, openPlaywrights>>

\* lines 87-89: _playwright.stop() completes (the browser it launched closes
\* with it), or raises into the except clause
CleanupStop(s) ==
    /\ phase = "cleanup"
    /\ cleanupPc[s] = "pw"
    /\ \E ok \in BOOLEAN :
          IF ok
          THEN /\ openPlaywrights' = openPlaywrights \ {_playwright[s]}
               /\ openBrowsers' = openBrowsers \ {_playwright[s]}
               /\ openContexts' = openContexts \ {_playwright[s]}
               /\ openPages' = PagesOutside({_playwright[s]})
               /\ _playwright' = [_playwright EXCEPT ![s] = 0]
          ELSE UNCHANGED <<openVars, _playwright>>
    /\ cleanupPc' = [cleanupPc EXCEPT ![s] = "done"]
    /\ UNCHANGED <<unitVars, coordVars, crawlInputVars, phase, tasks, semaphore,
                   callVars, browser, context>>

\* PlaywrightNewsScraper.cleanup: the gather over both cleanups returns
CleanupGather ==
    /\ phase = "cleanup"
    /\ \A s \in Scrapers : cleanupPc[s] = "done"
    /\ phase' = "cleaned"
    /\ UNCHANGED <<unitVars, coordVars, crawlInputVars, tasks, semaphore,
                   callVars, refVars, openVars, cleanupPc>>

TaskIds == 1..(MaxUrls + 2)

CrawlNext ==
    \/ \E i \in TaskIds : Begin(i)
    \/ \E i \in TaskIds : SetupStart(i)
    \/ \E i \in TaskIds : SetupLaunch(i)
    \/ \E i \in TaskIds : SetupContext(i)
    \/ \E i \in TaskIds : SetupRoute(i)
    \/ \E i \in TaskIds : NewPage(i)
    \/ \E i \in TaskIds : PageWork(i)
    \/ \E i \in TaskIds : PageClose(i)
    \/ \E i \in TaskIds : Rss(i)
    \/ SearchGather
    \/ ExtractGather
    \/ Timeout
    \/ \E i \in TaskIds : CancelTask(i)
    \/ CancelDone
    \/ \E s \in Scrapers : CleanupStart(s)
    \/ \E s \in Scrapers : CleanupContext(s)
    \/ \E s \in Scrapers : CleanupBrowser(s)
    \/ \E s \in Scrapers : CleanupStop(s)
    \/ CleanupGather

SpecCrawl == CrawlInit /\ [][CrawlNext]_vars

(***************************************************************************)
(* Properties of the crawl, checked under SpecCrawl                        *)
(***************************************************************************)
\* C3: after the cleanup pass of a session has finished, whether the crawl
\* returned, raised or was cancelled by the timeout, no browser, browser
\* context or page opened by a scraper of the session is still open, for every
\* interleaving of the tasks and also when a close fails.
C3_NoHandleLeftOpen ==
    phase = "cleaned" =>
        /\ openBrowsers = {}
        /\ openContexts = {}
        /\ openPages = {}

IsSearch(i) == i \in 1..Len(tasks) /\ tasks[i].kind = "search"

\* C7: search_news_parallel and scrape_all do not raise when a search raises;
\* in the map search_news_parallel returns, a source whose search raised has
\* the empty list and every other source has exactly the list its search
\* returned.
C7_SearchFailureIsolated ==
    /\ searchOutcome # "raised"
    /\ crawlOutcome # "raised"
    /\ searchOutcome = "returned" =>
          \A i \in 1..Len(tasks) :
              IsSearch(i) =>
                  url_map[tasks[i].source] =
                      IF tasks[i].status = "raised" THEN <<>> ELSE tasks[i].urls

\* the search of one source raised, the other found URLs, scrape_all returned
C7_Witness ==
    /\ searchOutcome = "returned"
    /\ crawlOutcome = "returned"
    /\ \E i, j \in 1..Len(tasks) :
          /\ IsSearch(i) /\ tasks[i].status = "raised"
          /\ IsSearch(j) /\ tasks[j].status = "returned"
          /\ tasks[j].urls # <<>>
          /\ url_map[tasks[j].source] = tasks[j].urls

\* the search of source s has completed and returned the URL u
SearchReturned(s, u) ==
    \E j \in 1..Len(tasks) :
       /\ IsSearch(j)
       /\ tasks[j].source = s
       /\ tasks[j].status = "returned"
       /\ \E k \in 1..Len(tasks[j].urls) : tasks[j].urls[k] = u

\* C23: in scrape_all no extraction coroutine exists, and so no extract_article
\* call starts, before the searches are over: while the searches run there is
\* no extraction task, and every extraction task is for a URL that the
\* completed search_news call of its source returned.
C23_SearchBeforeExtract ==
    entry = "scrape_all" =>
       \A i \in 1..Len(tasks) :
          tasks[i].kind = "extract" =>
             /\ phase # "search"
             /\ SearchReturned(tasks[i].source, tasks[i].url)

\* both sources were searched and an extract_article call for a Google URL is
\* under way
C23_Witness ==
    /\ entry = "scrape_all"
    /\ Len(SelectSeq(tasks, LAMBDA t : t.kind = "search")) = 2
    /\ \E i \in 1..Len(tasks) :
          /\ tasks[i].kind = "extract"
          /\ tasks[i].source = GoogleKo
          /\ tasks[i].pc \notin {"new"}
          /\ tasks[i].status = "pending"
          /\ SearchReturned(GoogleKo, tasks[i].url)

\* the handles in a set that tasks of one scraper have created
CreatedBy(handles, src) == {i \in handles : tasks[i].source = src}

\* a coroutine that has not run yet ends with the AttributeError of new_page():
\* setup() returned at once because another task had set self.browser, and
\* self.context was still None
FoundNoContext(i) == tasks[i].pc = "new" /\ tasks'[i].status = "raised"

\* C27: setup() is once-only per scraper under concurrency: a browser or a
\* context is created for a scraper only if none was created for it before,
\* and no coroutine that goes from setup() to new_page() finds
\* self.context None.
C27_SetupOnceOnly ==
    [][/\ \A i \in openBrowsers' \ openBrowsers :
            CreatedBy(openBrowsers, tasks[i].source) = {}
       /\ \A i \in openContexts' \ openContexts :
            CreatedBy(openContexts, tasks[i].source) = {}
       /\ \A i \in 1..Len(tasks) : ~FoundNoContext(i)]_vars

\* search_news returns the empty list before it has searched
RejectedUnsearched(i) == tasks[i].pc = "new" /\ tasks'[i].status = "returned"

\* C30: every keyword that passes the validation of the coordinator (1 to 200
\* characters) is searched on each valid source: the search of a source
\* returns without searching only for a keyword the coordinator rejects too.
C30_AcceptedKeywordSearched ==
    [][\A i \in 1..Len(tasks) :
          (IsSearch(i) /\ RejectedUnsearched(i))
              => ~validate_input(crawlKeyword, KeywordMaxLength)]_vars

\* C8: at no time are more than max_concurrent extract_article calls in
\* progress, whatever the number of URLs, the interleaving, the failures and
\* the cancellations.
C8_BoundedConcurrency == NumInProgress <= max_concurrent

\* the semaphore is exhausted and an extraction waits for it
C8_Witness ==
    /\ phase = "extract"
    /\ NumInProgress = max_concurrent
    /\ \E i \in 1..Len(tasks) :
          /\ tasks[i].kind = "extract"
          /\ tasks[i].status = "pending"
          /\ tasks[i].pc = "new"

\* the articles of the extractions that returned one, in task order
RECURSIVE SucceededArticles(_)
SucceededArticles(ts) ==
    IF ts = <<>> THEN <<>>
    ELSE (IF /\ Head(ts).kind = "extract"
             /\ Head(ts).status = "returned"
             /\ Head(ts).article # NoValue
          THEN <<Head(ts).article>> ELSE <<>>)
         \o SucceededArticles(Tail(ts))

\* C9: extract_articles_parallel does not raise, and the list it returns holds
\* exactly the articles of the extract_article calls that returned one, one per
\* such URL: a call that raised or returned no article contributes nothing.
C9_FailedExtractionsDropped ==
    /\ extractOutcome # "raised"
    /\ extractOutcome = "returned" =>
          /\ crawlOutcome = "returned"
          /\ articles = SucceededArticles(tasks)

\* one extraction raised, another returned its article, which is the result
C9_Witness ==
    /\ extractOutcome = "returned"
    /\ Len(articles) = 1
    /\ \E i \in 1..Len(tasks) :
          tasks[i].kind = "extract" /\ tasks[i].status = "raised"

(***************************************************************************)
(* agent/tools/news_scraper: PlaywrightBaseScraper.extract_text_by_-      *)
(* selectors and extract_article of the Naver and the Google scraper, one *)
(* call on one URL (SpecArticle).  The page answers every lookup when it  *)
(* is made.                                                                *)
(***************************************************************************)
\* len(stripped_text) > 10 of extract_text_by_selectors
TextMinLength == 10

\* len(content) > 50 of extract_article
ContentMinLength == 50

\* content[:3000] of extract_article
ContentCap == 3000

\* a text of l blanks, n letters and t blanks
TextOf(l, n, t) ==
    [i \in 1..(l + n + t) |-> IF i > l /\ i <= l + n THEN "x" ELSE " "]

\* the texts element.text_content() gives: empty, blank, and around the two
\* length thresholds
SampleTexts ==
    {TextOf(0, 0, 0), TextOf(2, 0, 0),
     TextOf(1, TextMinLength, 1), TextOf(1, TextMinLength + 1, 1),
     TextOf(0, ContentMinLength, 0), TextOf(0, ContentMinLength + 1, 1)}

\* what one round of the selector loop meets: wait_for_selector or
\* text_content raises, no element, an element without text, or a text
LookupOutcomes ==
    {[kind |-> "raise", text |-> NoText],
     [kind |-> "no_element", text |-> NoText],
     [kind |-> "element", text |-> NoText]}
    \cup {[kind |-> "element", text |-> Text(t)] : t \in SampleTexts}

\* Python truthiness of an Optional[str]
Truthy(v) == ~v.isNone /\ v.text # <<>>

\* the round without its exception handler
SelectorRound_NoHandler(o) ==
    IF o.kind = "raise" THEN "raise"
    ELSE IF /\ o.kind = "element"
            /\ Truthy(o.text)
            /\ Len(Strip(o.text.text)) > TextMinLength
         THEN "return"
         ELSE "continue"

\* lines 118-130: one round of the loop of extract_text_by_selectors
SelectorRound(o) ==
    IF o.kind = "raise" THEN "continue"
    ELSE IF /\ o.kind = "element"
            /\ Truthy(o.text)
            /\ Len(Strip(o.text.text)) > TextMinLength
         THEN "return"
         ELSE "continue"

\* what page.title() gives
PageTitles ==
    {<<>>, <<"N", "e", "w", "s">>, <<"N", "e", "w", "s", " ", "-", " ", "S">>}

\* the index at which " - " first stands in str from index i on, 0 if nowhere
RECURSIVE FindDash(_, _)
FindDash(str, i) ==
    IF i + 2 > Len(str) THEN 0
    ELSE IF MatchesAt(str, i, <<" ", "-", " ">>) THEN i
    ELSE FindDash(str, i + 1)

\* playwright_google.py lines 138-139: title.split(' - ')[0].strip()
SiteNameRemoved(str) ==
    IF str # <<>> /\ FindDash(str, 1) > 0
    THEN Strip(Slice(str, 1, FindDash(str, 1) - 1))
    ELSE str

\* the article dictionary of extract_article
Article(t, c, s) ==
    [title |-> t.text, content |-> Slice(c.text, 1, Min(Len(c.text), ContentCap)),
     source |-> s]

ArticleInit ==
    /\ ParseIdle
    /\ CoordIdle
    /\ CrawlIdle
    /\ ScorerIdle
    /\ ToolIdle
    /\ SeleniumIdle
    /\ aScraper \in Scrapers
    /\ aUrlValid \in BOOLEAN
    /\ nSelectors \in 1..MaxSelectors
    /\ aPc = "call"
    /\ xPc = "idle"
    /\ xIdx = 0
    /\ xLookups = <<>>
    /\ xRet = NoText
    /\ aExtracted = [title |-> NoText, content |-> NoText]
    /\ title = NoText
    /\ content = NoText
    /\ aOutcome = "running"
    /\ aResult = NoValue

\* a return or an exception that leaves extract_article
ArticleEnd(how, res) ==
    /\ aPc' = "done"
    /\ aOutcome' = how
    /\ aResult' = res

\* the call of extract_text_by_selectors begins
ExtractorCall ==
    /\ xPc' = "running"
    /\ xIdx' = 1
    /\ xLookups' = <<>>
    /\ xRet' = NoText

\* naver 136-140, google 120-121: the URL check of the Naver scraper, then
\* setup() and new_page(), which stand before the try block
ArticleOpen ==
    /\ aPc = "call"
    /\ IF aScraper = NaverKo /\ ~aUrlValid
       THEN ArticleEnd("returned", NoValue)
       ELSE \E ok \in BOOLEAN :
               IF ok THEN aPc' = "goto" /\ UNCHANGED <<aOutcome, aResult>>
               ELSE ArticleEnd("raised", NoValue)
    /\ UNCHANGED <<parseVars, scorerVars, toolVars, seleniumVars, coordVars, crawlVars,
                   aScraper, aUrlValid, nSelectors,
                   xPc, xIdx, xLookups, xRet, aExtracted, title, content>>

\* naver 146-150, google 127-134: the page is loaded and the title looked up;
\* an exception is caught by the handler of the function
ArticleGoto ==
    /\ aPc = "goto"
    /\ \E ok \in BOOLEAN :
          IF ok THEN aPc' = "title" /\ ExtractorCall
          ELSE aPc' = "close" /\ UNCHANGED <<xPc, xIdx, xLookups, xRet>>
    /\ UNCHANGED <<parseVars, scorerVars, toolVars, seleniumVars, coordVars, crawlVars,
                   aScraper, aUrlValid, nSelectors,
                   aExtracted, title, content, aOutcome, aResult>>

\* playwright_base.py 118-131: one round of the selector loop; the function
\* returns None when the list is exhausted
SelectorLookup ==
    /\ xPc = "running"
    /\ xIdx <= nSelectors
    /\ \E o \in LookupOutcomes :
          /\ xLookups' = Append(xLookups, o)
          /\ CASE SelectorRound(o) = "return" ->
                    /\ xRet' = Text(Strip(o.text.text))
                    /\ xPc' = "returned"
                    /\ UNCHANGED xIdx
               [] SelectorRound(o) = "raise" ->
                    /\ xPc' = "raised"
                    /\ UNCHANGED <<xIdx, xRet>>
               [] OTHER ->
                    /\ xIdx' = xIdx + 1
                    /\ xRet' = NoText
                    /\ xPc' = IF xIdx = nSelectors THEN "returned" ELSE "running"
    /\ UNCHANGED <<parseVars, scorerVars, toolVars, seleniumVars, coordVars, crawlVars,
                   aScraper, aUrlValid, nSelectors,
                   aPc, aExtracted, title, content, aOutcome, aResult>>

\* naver 150-155, google 134-142: the title is taken, or page.title() awaited
\* when there is none
TitleDone ==
    /\ aPc = "title"
    /\ xPc = "returned"
    /\ title' = xRet
    /\ aExtracted' = [aExtracted EXCEPT !.title = xRet]
    /\ IF Truthy(xRet)
       THEN aPc' = "content" /\ ExtractorCall
       ELSE aPc' = "page_title" /\ UNCHANGED <<xPc, xIdx, xLookups, xRet>>
    /\ UNCHANGED <<parseVars, scorerVars, toolVars, seleniumVars, coordVars, crawlVars,
                   aScraper, aUrlValid, nSelectors,
                   content, aOutcome, aResult>>

\* naver 151-155, google 135-142: page.title() returns or raises; the Google
\* scraper removes the site name
PageTitle ==
    /\ aPc = "page_title"
    /\ \/ \E t \in PageTitles :
             /\ title' = Text(IF aScraper = GoogleKo THEN SiteNameRemoved(t) ELSE t)
             /\ aPc' = "content"
             /\ ExtractorCall
       \/ /\ aPc' = "close"
          /\ UNCHANGED <<title, xPc, xIdx, xLookups, xRet>>
    /\ UNCHANGED <<parseVars, scorerVars, toolVars, seleniumVars, coordVars, crawlVars,
                   aScraper, aUrlValid, nSelectors,
                   aExtracted, content, aOutcome, aResult>>

\* naver 155-172, google 142-151: the content is taken (the images and tables
\* of the Naver scraper catch their own exceptions) and the article built if
\* title and content are there and the content is long enough
ContentDone ==
    /\ aPc = "content"
    /\ xPc = "returned"
    /\ content' = xRet
    /\ aExtracted' = [aExtracted EXCEPT !.content = xRet]
    /\ aResult' = IF /\ Truthy(title)
                     /\ Truthy(xRet)
                     /\ Len(xRet.text) > ContentMinLength
                  THEN Article(title, xRet, aScraper)
                  ELSE NoValue
    /\ aPc' = "close"
    /\ xPc' = "idle"
    /\ UNCHANGED <<parseVars, scorerVars, toolVars, seleniumVars, coordVars, crawlVars,
                   aScraper, aUrlValid, nSelectors,
                   xIdx, xLookups, xRet, title, aOutcome>>

\* naver 176-179, google 155-158: the finally clause closes the page; an
\* exception of page.close() leaves the function
ArticleClose ==
    /\ aPc = "close"
    /\ \E ok \in BOOLEAN :
          IF ok THEN ArticleEnd("returned", aResult)
          ELSE ArticleEnd("raised", NoValue)
    /\ UNCHANGED <<parseVars, scorerVars, toolVars, seleniumVars, coordVars, crawlVars,
                   aScraper, aUrlValid, nSelectors,
                   xPc, xIdx, xLookups, xRet, aExtracted, title, content>>

ArticleNext ==
    \/ ArticleOpen
    \/ ArticleGoto
    \/ SelectorLookup
    \/ TitleDone
    \/ PageTitle
    \/ ContentDone
    \/ ArticleClose

SpecArticle == ArticleInit /\ [][ArticleNext]_vars

\* the lookup qualifies: an element whose stripped text is longer than the
\* threshold
Qualifies(o) ==
    /\ o.kind = "element"
    /\ ~o.text.isNone
    /\ Len(Strip(o.text.text)) > TextMinLength

\* C13: extract_text_by_selectors never raises, whatever its lookups raise;
\* when it returns a text, that text is the stripped text of the selector
\* tried last, which is the first of the list that qualifies (its stripped
\* text is longer than the threshold of 10); and it returns None only after
\* every selector of the list was tried and none qualified.
C13_FirstQualifyingSelector ==
    /\ xPc # "raised"
    /\ xPc = "returned" =>
          LET n == Len(xLookups) IN
          /\ n >= 1
          /\ \A i \in 1..(n - 1) : ~Qualifies(xLookups[i])
          /\ IF Qualifies(xLookups[n])
             THEN xRet = Text(Strip(xLookups[n].text.text))
             ELSE xRet = NoText /\ n = nSelectors

\* the first selector raised and the second gave a padded text, which was
\* returned stripped
C13_Witness ==
    /\ xPc = "returned"
    /\ Len(xLookups) = 2
    /\ xLookups[1].kind = "raise"
    /\ xLookups[2] = [kind |-> "element",
                      text |-> Text(TextOf(1, TextMinLength + 1, 1))]
    /\ xRet = Text(TextOf(0, TextMinLength + 1, 0))

\* C14: extract_article returns no article for a URL only when neither the
\* title nor the body passed the fallback extractor: a call that returns after
\* the extractor gave a title or a body returns an Article.  (A call that ends
\* by an exception of page.close() is not held against the claim.)
C14_FailsOnlyWhenBothFail ==
    (/\ aPc = "done"
     /\ aOutcome = "returned"
     /\ (Truthy(aExtracted.title) \/ Truthy(aExtracted.content)))
        => aResult # NoValue

\* the lookup of a content selector gave a text that passes the body threshold
QualifiesAsBody(o) ==
    /\ o.kind = "element"
    /\ ~o.text.isNone
    /\ Len(Strip(o.text.text)) > ContentMinLength

\* the content lookups of extract_article are over
ContentLookedUp == xPc = "idle" /\ xLookups # <<>>

\* C25: for the body the threshold of 50 is applied inside the fallback: the
\* content lookups stop at the first content selector whose text is longer
\* than 50 characters, that text is the body of the article, and the body has
\* failed only after every content selector was tried and none had a text
\* longer than 50 characters.
C25_BodyThresholdInFallback ==
    ContentLookedUp =>
       LET n == Len(xLookups) IN
       /\ \A i \in 1..(n - 1) : ~QualifiesAsBody(xLookups[i])
       /\ IF QualifiesAsBody(xLookups[n])
          THEN content = Text(Strip(xLookups[n].text.text))
          ELSE n = nSelectors /\ aResult = NoValue

(***************************************************************************)
(* agent/tools/data_analyzer/analyzer.py: DataAnalyzerTool and the tools   *)
(* analyze_sentiment and analyze_news_trend (SpecScorer).  A response of   *)
(* the model is given by what json.loads makes of it; a number is a        *)
(* fraction of two integers, or the float inf (json.loads gives it for     *)
(* Infinity and for 1e999), or the float nan.                              *)
(***************************************************************************)
\* the values of SentimentType, in Latin letters
Geungjeong == "Geungjeong"
Bujeong == "Bujeong"
Jungnip == "Jungnip"

Labels == {Geungjeong, Bujeong, Jungnip}

\* a key that is not in the dictionary
Absent == "absent"

\* what the response can hold under a label key: a label, another string
JsonLabels == Labels \cup {"mixed", Absent}

Frac(n, d) == [num |-> n, den |-> d]

Abs(n) == IF n < 0 THEN -n ELSE n

RECURSIVE Gcd(_, _)
Gcd(a, b) == IF b = 0 THEN a ELSE Gcd(b, a % b)

\* the fraction n / d in lowest terms
Reduced(n, d) ==
    LET g == Gcd(Abs(n), Abs(d)) IN
    IF g = 0 THEN Frac(n, d) ELSE Frac(n \div g, d \div g)

\* float('inf') and float('nan')
Inf == Frac(1, 0)
NaN == Frac(0, 0)

\* a + b of floats; the finite numbers have positive denominators
FracAdd(a, b) ==
    IF a = NaN \/ b = NaN THEN NaN
    ELSE IF a = Inf \/ b = Inf THEN Inf
    ELSE Reduced(a.num * b.den + b.num * a.den, a.den * b.den)

\* a / b of floats, for b > 0
FracDiv(a, b) ==
    IF a = NaN \/ b = NaN THEN NaN
    ELSE IF b = Inf THEN (IF a = Inf THEN NaN ELSE Frac(0, 1))
    ELSE IF a = Inf THEN Inf
    ELSE Reduced(a.num * b.den, a.den * b.num)

\* a <= b of floats; every comparison with nan is false
FracLeq(a, b) ==
    /\ a # NaN
    /\ b # NaN
    /\ IF b = Inf THEN TRUE
       ELSE IF a = Inf THEN FALSE
       ELSE a.num * b.den <= b.num * a.den

\* a > 0 of floats
Positive(a) == a # NaN /\ (a = Inf \/ a.num > 0)

\* a == b of floats
FracEq(a, b) ==
    /\ a # NaN
    /\ b # NaN
    /\ IF a = Inf \/ b = Inf THEN a = b ELSE a.num * b.den = b.num * a.den

\* a JSON value under the confidence key: absent, a number, a string, null,
\* or NaN (which json.loads accepts)
Json(t, n) == [t |-> t, n |-> n]

ConfidenceValues ==
    {Json("absent", Frac(0, 1)), Json("str", Frac(0, 1)),
     Json("null", Frac(0, 1)), Json("nan", Frac(0, 1))}
    \cup {Json("num", Frac(n, 10)) : n \in {-1, 0, 5, 10, 11}}
    \cup {Json("num", Inf)}

\* the parsed sentiment objects a response can hold
SentimentObjects ==
    [sentiment : JsonLabels, confidence : ConfidenceValues,
     reason : {Absent, "text"}]

\* a distribution: a number for every label
Dist(p, n, u) ==
    [l \in Labels |-> IF l = Geungjeong THEN p ELSE IF l = Bujeong THEN n ELSE u]

\* {"긍정": 0.33, "부정": 0.33, "중립": 0.34}
FallbackDistribution == Dist(Frac(33, 100), Frac(33, 100), Frac(34, 100))

\* {"긍정": 0.0, "부정": 0.0, "중립": 1.0}
NoCommentsDistribution == Dist(Frac(0, 1), Frac(0, 1), Frac(1, 1))

RawNumbers == {Frac(-1, 1), Frac(0, 1), Frac(1, 1), Frac(2, 1), Inf}

\* what the response holds under sentiment_distribution: nothing, a value that
\* is no dictionary, a dictionary with a value that is no number, or numbers
DistValues ==
    {[t |-> t, d |-> NoCommentsDistribution] : t \in {"absent", "not_dict", "bad_value"}}
    \cup {[t |-> "dict", d |-> d] : d \in [Labels -> RawNumbers]}
    \cup {[t |-> "dict", d |-> FallbackDistribution]}

TrendObjects == [overall_sentiment : JsonLabels, sentiment_distribution : DistValues]

\* a response text: without JSON, with text json.loads rejects, with a JSON
\* value that is no object, or with an object
Response(kind, obj) == [kind |-> kind, obj |-> obj]

Responses(response_type) ==
    {Response(k, NoValue) : k \in {"no_json", "invalid_json", "not_object"}}
    \cup {Response("object", o) :
             o \in IF response_type = "sentiment" THEN SentimentObjects
                   ELSE TrendObjects}

\* lines 141-147: the dummy responses of call_openai_api, and the fixed
\* responses of the Gemini branch (lines 206, 236)
DummyResponse(response_type) ==
    IF response_type = "sentiment"
    THEN Response("object",
                  [sentiment |-> Jungnip, confidence |-> Json("num", Frac(5, 10)),
                   reason |-> "text"])
    ELSE Response("object",
                  [overall_sentiment |-> Jungnip,
                   sentiment_distribution |->
                       [t |-> "dict", d |-> FallbackDistribution]])

\* lines 187-193: the defaults of parse_json_response
ParseFallback(response_type) ==
    IF response_type = "sentiment"
    THEN [sentiment |-> Jungnip, confidence |-> Json("num", Frac(5, 10)),
          reason |-> "text"]
    ELSE [overall_sentiment |-> Jungnip,
          sentiment_distribution |-> [t |-> "dict", d |-> FallbackDistribution]]

\* 0 <= c <= 1 of line 172 raises TypeError for a str and for None
ComparisonRaises(c) == c.t \in {"str", "null"}

\* 0 <= c <= 1 for a number; every comparison with NaN is false
InUnitInterval(c) ==
    /\ c.t = "num"
    /\ FracLeq(Frac(0, 1), c.n)
    /\ FracLeq(c.n, Frac(1, 1))

\* the default only for a missing confidence
NormalizedConfidence_MissingOnly(c) ==
    IF c.t = "absent" THEN Json("num", Frac(5, 10)) ELSE c

\* lines 172-173: the confidence after the range check
NormalizedConfidence(c) ==
    IF c.t = "absent" \/ ~InUnitInterval(c) THEN Json("num", Frac(5, 10)) ELSE c

\* lines 168-171: the label after the checks
NormalizedLabel(l) == IF l = Absent \/ l \notin Labels THEN Jungnip ELSE l

\* sum(dist.values())
Total(d) == FracAdd(FracAdd(d[Geungjeong], d[Bujeong]), d[Jungnip])

\* lines 177-183: the distribution after normalisation
NormalizedDistribution(d) ==
    IF Positive(Total(d))
    THEN [l \in Labels |-> FracDiv(d[l], Total(d))]
    ELSE FallbackDistribution

\* lines 149-193: parse_json_response; an exception inside it (no JSON found,
\* json.loads, a subscript on a value that is no object, TypeError of the
\* comparison or of sum, AttributeError of values()) gives the defaults
parse_json_response(response, response_type) ==
    IF response.kind # "object" THEN ParseFallback(response_type)
    ELSE IF response_type = "sentiment"
    THEN IF response.obj.confidence.t # "absent"
            /\ ComparisonRaises(response.obj.confidence)
         THEN ParseFallback(response_type)
         ELSE [sentiment |-> NormalizedLabel(response.obj.sentiment),
               confidence |-> NormalizedConfidence(response.obj.confidence),
               reason |-> response.obj.reason]
    ELSE LET dist == response.obj.sentiment_distribution IN
         IF dist.t \in {"not_dict", "bad_value"} THEN ParseFallback(response_type)
         ELSE [overall_sentiment |-> response.obj.overall_sentiment,
               sentiment_distribution |->
                   IF dist.t = "absent" THEN dist
                   ELSE [t |-> "dict", d |-> NormalizedDistribution(dist.d)]]

\* max_length of the validate_input call of analyze_single_comment
CommentMaxLength == 1000

\* the comment texts: a plain one, the empty one, one with a semicolon
CommentTexts == {<<"o", "k">>, <<>>, <<"a", ";", "b">>}

ScorerEntries ==
    {"analyze_sentiment", "analyze_single_comment",
     "analyze_news_trend", "analyze_trend"}

IsTool(e) == e \in {"analyze_sentiment", "analyze_news_trend"}

ResponseType(e) ==
    IF e \in {"analyze_sentiment", "analyze_single_comment"}
    THEN "sentiment" ELSE "trend"

ScorerInit ==
    /\ ParseIdle
    /\ CoordIdle
    /\ CrawlIdle
    /\ ArticleIdle
    /\ ToolIdle
    /\ SeleniumIdle
    /\ sEntry \in ScorerEntries
    /\ sText \in (IF ResponseType(sEntry) = "sentiment" THEN CommentTexts ELSE {<<>>})
    /\ sComments \in (IF ResponseType(sEntry) = "trend" THEN 0..MaxComments ELSE {0})
    /\ sUseOpenai \in BOOLEAN
    /\ sKeyOk \in (IF IsTool(sEntry) THEN BOOLEAN ELSE {TRUE})
    /\ sPc = "call"
    /\ sLlmRaised = FALSE
    /\ sResponse = NoValue
    /\ sParsed = NoValue
    /\ sOutcome = "running"
    /\ sResult = NoValue

ScorerReturn(res) ==
    /\ sPc' = "done"
    /\ sOutcome' = "returned"
    /\ sResult' = res

\* lines 257-259 and 293-303: what the tools return for an exception
ToolError(e, exc, n) ==
    IF ResponseType(e) = "sentiment"
    THEN [error |-> exc, sentiment |-> Jungnip,
          confidence |-> Json("num", Frac(0, 10))]
    ELSE [error |-> exc, overall_sentiment |-> Jungnip,
          sentiment_distribution |-> FallbackDistribution, total_comments |-> n]

\* an exception in the called function: a tool catches it, a method lets it out
ScorerFail(exc) ==
    IF IsTool(sEntry)
    THEN ScorerReturn(ToolError(sEntry, exc, sComments))
    ELSE /\ sPc' = "done"
         /\ sOutcome' = "raised"
         /\ sResult' = NoValue

\* lines 220-228 and 280-289: the results for an empty comment list
NoCommentsResult(e) ==
    IF IsTool(e)
    THEN [error |-> "no_comments", overall_sentiment |-> Jungnip,
          sentiment_distribution |-> NoCommentsDistribution, total_comments |-> 0]
    ELSE [overall_sentiment |-> Jungnip,
          sentiment_distribution |-> NoCommentsDistribution, total_comments |-> 0]

\* lines 253-255, 197-206 and 265-291, 220-236: the constructor, the input
\* checks and the prompt, up to the call of the model
ScorerCall ==
    /\ sPc = "call"
    /\ IF ~sKeyOk
       THEN ScorerFail("RuntimeError") /\ UNCHANGED sResponse
       ELSE IF ResponseType(sEntry) = "sentiment"
               /\ ~validate_input(sText, CommentMaxLength)
       THEN ScorerFail("ValueError") /\ UNCHANGED sResponse
       ELSE IF ResponseType(sEntry) = "trend" /\ sComments = 0
       THEN ScorerReturn(NoCommentsResult(sEntry)) /\ UNCHANGED sResponse
       ELSE IF sUseOpenai
       THEN sPc' = "llm" /\ UNCHANGED <<sResponse, sOutcome, sResult>>
       ELSE /\ sPc' = "parse"
            /\ sResponse' = DummyResponse(ResponseType(sEntry))
            /\ UNCHANGED <<sOutcome, sResult>>
    /\ UNCHANGED <<parseVars, articleVars, toolVars, seleniumVars, coordVars, crawlVars,
                   sEntry, sText,
                   sComments, sUseOpenai, sKeyOk, sLlmRaised, sParsed>>

\* lines 125-147: call_openai_api returns the content of the response, or
\* the dummy response when the call raised
call_openai_api ==
    /\ sPc = "llm"
    /\ \/ /\ sLlmRaised' = TRUE
          /\ sResponse' = DummyResponse(ResponseType(sEntry))
       \/ /\ sLlmRaised' = FALSE
          /\ sResponse' \in Responses(ResponseType(sEntry))
    /\ sPc' = "parse"
    /\ UNCHANGED <<parseVars, articleVars, toolVars, seleniumVars, coordVars, crawlVars,
                   sEntry, sText,
                   sComments, sUseOpenai, sKeyOk, sParsed, sOutcome, sResult>>

\* lines 208 and 238: the response is parsed
ScorerParse ==
    /\ sPc = "parse"
    /\ sParsed' = parse_json_response(sResponse, ResponseType(sEntry))
    /\ sPc' = "build"
    /\ UNCHANGED <<parseVars, articleVars, toolVars, seleniumVars, coordVars, crawlVars,
                   sEntry, sText,
                   sComments, sUseOpenai, sKeyOk, sLlmRaised, sResponse, sOutcome,
                   sResult>>

\* lines 210-216 and 240-247, 256 and 292: the result object is built from
\* the parsed dictionary; a missing key is a KeyError, a string that is no
\* label a ValueError of SentimentType
ScorerBuild ==
    /\ sPc = "build"
    /\ IF ResponseType(sEntry) = "sentiment"
       THEN IF sParsed.reason = Absent
            THEN ScorerFail("KeyError")
            ELSE ScorerReturn([text |-> sText, sentiment |-> sParsed.sentiment,
                               confidence |-> sParsed.confidence,
                               reason |-> sParsed.reason])
       ELSE IF sParsed.overall_sentiment = Absent
            THEN ScorerFail("KeyError")
            ELSE IF sParsed.overall_sentiment \notin Labels
            THEN ScorerFail("ValueError")
            ELSE IF sParsed.sentiment_distribution.t = "absent"
            THEN ScorerFail("KeyError")
            ELSE ScorerReturn([overall_sentiment |-> sParsed.overall_sentiment,
                               sentiment_distribution |->
                                   sParsed.sentiment_distribution.d,
                               total_comments |-> sComments])
    /\ UNCHANGED <<parseVars, articleVars, toolVars, seleniumVars, coordVars, crawlVars,
                   sEntry, sText,
                   sComments, sUseOpenai, sKeyOk, sLlmRaised, sResponse, sParsed>>

ScorerNext ==
    \/ ScorerCall
    \/ call_openai_api
    \/ ScorerParse
    \/ ScorerBuild

SpecScorer == ScorerInit /\ [][ScorerNext]_vars

\* a sentiment function is called and the response has been parsed
SentimentParsed ==
    /\ ResponseType(sEntry) = "sentiment"
    /\ sPc \in {"build", "done"}
    /\ sParsed # NoValue

SentimentReturned ==
    /\ ResponseType(sEntry) = "sentiment"
    /\ sOutcome = "returned"

\* C15: every sentiment result the scorer produces has a confidence that is a
\* number between 0 and 1: the dictionary parse_json_response returns, the
\* SentimentResult of analyze_single_comment and the dictionary of
\* analyze_sentiment, whatever the confidence of the response was (out of
\* range, missing, a string, null, NaN).
C15_ConfidenceInUnitInterval ==
    /\ SentimentParsed => InUnitInterval(sParsed.confidence)
    /\ SentimentReturned => InUnitInterval(sResult.confidence)

\* a response with confidence 1.1 was parsed and the result returned with 0.5
C15_Witness ==
    /\ SentimentReturned
    /\ sResponse # NoValue
    /\ sResponse.kind = "object"
    /\ sResponse.obj.confidence = Json("num", Frac(11, 10))
    /\ sResponse.obj.sentiment = Geungjeong
    /\ sResult.sentiment = Geungjeong
    /\ sResult.confidence = Json("num", Frac(5, 10))

\* the call of the model raised, or its response does not parse into the
\* required shape
Unparseable ==
    \/ sLlmRaised
    \/ sResponse.kind # "object"
    \/ sResponse.obj.sentiment = Absent
    \/ sResponse.obj.confidence.t = "absent"
    \/ sResponse.obj.reason = Absent

\* C16: a sentiment call on a valid comment with a configured analyzer never
\* raises; and when the call of the model raised or its response has no JSON,
\* invalid JSON or lacks a required key, the value returned is the fallback
\* result, label Neutral with confidence 0.5, and no error.
C16_ScorerFallsBack ==
    (/\ ResponseType(sEntry) = "sentiment"
     /\ sPc = "done"
     /\ sKeyOk
     /\ validate_input(sText, CommentMaxLength))
        => /\ sOutcome = "returned"
           /\ (sResponse # NoValue /\ Unparseable) =>
                 /\ "error" \notin DOMAIN sResult
                 /\ sResult.sentiment = Jungnip
                 /\ FracEq(sResult.confidence.n, Frac(1, 2))

TrendReturned ==
    /\ ResponseType(sEntry) = "trend"
    /\ sOutcome = "returned"

\* the values of the distribution sum to 1
SumsToOne(d) == FracEq(Total(d), Frac(1, 1))

\* C17: every trend analysis returned with total_comments > 0, by analyze_trend
\* or by analyze_news_trend, has a sentiment distribution whose values sum to
\* 1, whatever distribution the response held (unnormalized, all zero, with a
\* negative value, missing); and so has every distribution parse_json_response
\* returns.
C17_DistributionSumsToOne ==
    /\ (TrendReturned /\ sResult.total_comments > 0)
          => SumsToOne(sResult.sentiment_distribution)
    /\ (/\ ResponseType(sEntry) = "trend"
        /\ sParsed # NoValue
        /\ sParsed.sentiment_distribution.t = "dict")
          => SumsToOne(sParsed.sentiment_distribution.d)

\* C18: every trend analysis returned with total_comments = 0 has exactly the
\* fixed fallback distribution 0.33, 0.33, 0.34, from DataAnalyzerTool.-
\* analyze_trend and from the tool analyze_news_trend as from the coordinator.
C18_NoCommentsFallback ==
    (TrendReturned /\ sResult.total_comments = 0)
        => \A l \in Labels :
              FracEq(sResult.sentiment_distribution[l], FallbackDistribution[l])

(***************************************************************************)
(* agent/tools.py and agent/basic_agent_working.py: the calculator tools   *)
(* add_tool, multiply_tool and divide_tool (SpecTools).  An argument is a  *)
(* number, given as a fraction, or None.                                   *)
(***************************************************************************)
Number(n, d) == [isNumber |-> TRUE, n |-> Frac(n, d)]

NotNumber == [isNumber |-> FALSE, n |-> Frac(0, 1)]

\* the arguments of the calls
ToolArgs == {Number(n, 1) : n \in -2..2} \cup {Number(1, 2), NotNumber}

ToolModules == {"tools", "basic_agent_working"}

ToolNames == {"add_tool", "multiply_tool", "divide_tool"}

ToolReturn(f) == [outcome |-> "returned", result |-> f]

ToolRaise(exc) == [outcome |-> exc, result |-> NoValue]

\* a * b of floats
FracMul(a, b) == Reduced(a.num * b.num, a.den * b.den)

\* a / b of floats for b # 0, with a positive denominator
Quotient(a, b) ==
    IF b.num < 0 THEN Reduced((0 - a.num) * b.den, a.den * (0 - b.num))
    ELSE Reduced(a.num * b.den, a.den * b.num)

\* tools.py lines 22-27, basic_agent_working.py line 99: float(None) is a
\* TypeError that tools.py turns into ValueError; None + y is a TypeError
add_tool(m, x, y) ==
    IF x.isNumber /\ y.isNumber THEN ToolReturn(FracAdd(x.n, y.n))
    ELSE ToolRaise(IF m = "tools" THEN "ValueError" ELSE "TypeError")

\* tools.py lines 40-45, basic_agent_working.py line 105
multiply_tool(m, x, y) ==
    IF x.isNumber /\ y.isNumber THEN ToolReturn(FracMul(x.n, y.n))
    ELSE ToolRaise(IF m = "tools" THEN "ValueError" ELSE "TypeError")

\* the division without the check of the denominator: ZeroDivisionError
divide_tool_NoZeroCheck(m, x, y) ==
    IF ~x.isNumber \/ ~y.isNumber
    THEN ToolRaise(IF m = "tools" THEN "ValueError" ELSE "TypeError")
    ELSE IF y.n.num = 0 THEN ToolRaise("ZeroDivisionError")
    ELSE ToolReturn(Quotient(x.n, y.n))

\* tools.py lines 63-72: float(y), the check of y, float(x), the division;
\* basic_agent_working.py lines 110-113: the check of y, the division
divide_tool(m, x, y) ==
    IF m = "tools"
    THEN IF ~y.isNumber THEN ToolRaise("ValueError")
         ELSE IF y.n.num = 0 THEN ToolRaise("ValueError")
         ELSE IF ~x.isNumber THEN ToolRaise("ValueError")
         ELSE ToolReturn(Quotient(x.n, y.n))
    ELSE IF y.isNumber /\ y.n.num = 0 THEN ToolRaise("ValueError")
         ELSE IF ~x.isNumber \/ ~y.isNumber THEN ToolRaise("TypeError")
         ELSE ToolReturn(Quotient(x.n, y.n))

ToolInit ==
    /\ ParseIdle
    /\ CoordIdle
    /\ CrawlIdle
    /\ ArticleIdle
    /\ ScorerIdle
    /\ SeleniumIdle
    /\ tModule \in ToolModules
    /\ tTool \in ToolNames
    /\ tX \in ToolArgs
    /\ tY \in ToolArgs
    /\ tPc = "call"
    /\ tOutcome = "running"
    /\ tResult = NoValue

\* tool.func(x, y)
ToolCall ==
    /\ tPc = "call"
    /\ LET r == CASE tTool = "add_tool" -> add_tool(tModule, tX, tY)
                  [] tTool = "multiply_tool" -> multiply_tool(tModule, tX, tY)
                  [] tTool = "divide_tool" -> divide_tool(tModule, tX, tY)
       IN /\ tOutcome' = r.outcome
          /\ tResult' = r.result
    /\ tPc' = "done"
    /\ UNCHANGED <<parseVars, articleVars, scorerVars, seleniumVars, coordVars,
                   crawlVars, tModule, tTool, tX, tY>>

ToolNext == ToolCall

SpecTools == ToolInit /\ [][ToolNext]_vars

\* the call of the named tool is over, both arguments being numbers
NumbersDone(name) ==
    /\ tPc = "done"
    /\ tTool = name
    /\ tX.isNumber
    /\ tY.isNumber

\* C24: divide_tool raises ValueError, and returns nothing, for every
\* numerator when the denominator is zero; for numbers x and y # 0 it returns
\* the number that multiplied by y is x; add_tool returns x + y and
\* multiply_tool returns x * y; in both modules.
C24_CalculatorTools ==
    /\ (tPc = "done" /\ tTool = "divide_tool" /\ tY = Number(0, 1)) =>
          /\ tOutcome = "ValueError"
          /\ tResult = NoValue
    /\ (NumbersDone("divide_tool") /\ tY # Number(0, 1)) =>
          /\ tOutcome = "returned"
          /\ tResult.num * tY.n.num * tX.n.den = tX.n.num * tResult.den * tY.n.den
          /\ tResult.den # 0
    /\ NumbersDone("add_tool") =>
          /\ tOutcome = "returned"
          /\ tResult.num * tX.n.den * tY.n.den =
                (tX.n.num * tY.n.den + tY.n.num * tX.n.den) * tResult.den
          /\ tResult.den # 0
    /\ NumbersDone("multiply_tool") =>
          /\ tOutcome = "returned"
          /\ tResult.num * tX.n.den * tY.n.den = tX.n.num * tY.n.num * tResult.den
          /\ tResult.den # 0

\* divide_tool(1, 0) has raised ValueError
C24_Witness ==
    /\ tPc = "done"
    /\ tTool = "divide_tool"
    /\ tX = Number(1, 1)
    /\ tY = Number(0, 1)
    /\ tOutcome = "ValueError"

(***************************************************************************)
(* SpecSelenium: the Selenium path of analyze_news_async, lines 273-307.   *)
(* search_news runs in a thread of asyncio.to_thread; wait_for gives up    *)
(* after the timeout, but a thread cannot be cancelled and runs on, and    *)
(* the finally clause calls the synchronous cleanup() while it does.  The  *)
(* thread and the coroutine share NewsScraperTool.driver without a lock,   *)
(* so each read and write of it is a step of its own.                      *)
(***************************************************************************)
SeleniumInit ==
    /\ ParseIdle
    /\ CoordIdle
    /\ CrawlIdle
    /\ ArticleIdle
    /\ ScorerIdle
    /\ ToolIdle
    /\ zSources \in 1..MaxSources
    /\ zKeywordOk \in BOOLEAN
    /\ driver = 0
    /\ openDrivers = {}
    /\ createdDrivers = 0
    /\ thPc = "idle"
    /\ thIdx = 0
    /\ thNew = 0
    /\ mPc = "start"
    /\ mUrls = 0
    /\ cleanupDriver = 0
    /\ mOutcome = "running"

\* lines 273-278: the scraper is made and search_news starts in a thread
MainStart ==
    /\ mPc = "start"
    /\ mPc' = "await"
    /\ thPc' = "validate"
    /\ thIdx' = 1
    /\ UNCHANGED <<parseVars, articleVars, scorerVars, toolVars, coordVars, crawlVars,
                   zSources, zKeywordOk, driver, openDrivers, createdDrivers, thNew,
                   mUrls, cleanupDriver, mOutcome>>

\* search_news goes on to the next source, or returns after the last one
NextSource(idx) ==
    /\ thIdx' = idx + 1
    /\ thPc' = IF idx + 1 > zSources THEN "done" ELSE "validate"

\* search_naver_news / search_google_news, line 232 (397): a keyword that fails
\* validate_input(keyword, max_length=100) gives the empty list
ThreadValidate ==
    /\ thPc = "validate"
    /\ IF zKeywordOk
       THEN thPc' = "check" /\ UNCHANGED thIdx
       ELSE NextSource(thIdx)
    /\ UNCHANGED <<parseVars, articleVars, scorerVars, toolVars, coordVars, crawlVars,
                   zSources, zKeywordOk, driver, openDrivers, createdDrivers, thNew,
                   mPc, mUrls, cleanupDriver, mOutcome>>

\* line 236 (401): `if not self.driver`
ThreadCheck ==
    /\ thPc = "check"
    /\ thPc' = IF driver = 0 THEN "create" ELSE "use"
    /\ UNCHANGED <<parseVars, articleVars, scorerVars, toolVars, coordVars, crawlVars,
                   zSources, zKeywordOk, driver, openDrivers, createdDrivers, thIdx,
                   thNew, mPc, mUrls, cleanupDriver, mOutcome>>

\* line 237 (402): setup_driver() starts a WebDriver, or raises RuntimeError,
\* which search_news catches at line 515
ThreadCreate ==
    /\ thPc = "create"
    /\ \E ok \in BOOLEAN :
          IF ok
          THEN /\ createdDrivers' = createdDrivers + 1
               /\ openDrivers' = openDrivers \cup {createdDrivers + 1}
               /\ thNew' = createdDrivers + 1
               /\ thPc' = "assign"
               /\ UNCHANGED thIdx
          ELSE /\ NextSource(thIdx)
               /\ UNCHANGED <<createdDrivers, openDrivers, thNew>>
    /\ UNCHANGED <<parseVars, articleVars, scorerVars, toolVars, coordVars, crawlVars,
                   zSources, zKeywordOk, driver, mPc, mUrls, cleanupDriver, mOutcome>>

\* line 237 (402): `self.driver = ...`
ThreadAssign ==
    /\ thPc = "assign"
    /\ driver' = thNew
    /\ thNew' = 0
    /\ thPc' = "use"
    /\ UNCHANGED <<parseVars, articleVars, scorerVars, toolVars, coordVars, crawlVars,
                   zSources, zKeywordOk, openDrivers, createdDrivers, thIdx,
                   mPc, mUrls, cleanupDriver, mOutcome>>

\* the try block of the search: the page is loaded with self.driver and its
\* links are collected; every exception gives the empty list, and a driver
\* that is None or has been quit raises
ThreadUse ==
    /\ thPc = "use"
    /\ \E n \in 0..(MaxUrls - mUrls) :
          /\ n > 0 => driver \in openDrivers
          /\ mUrls' = mUrls + n
    /\ NextSource(thIdx)
    /\ UNCHANGED <<parseVars, articleVars, scorerVars, toolVars, coordVars, crawlVars,
                   zSources, zKeywordOk, driver, openDrivers, createdDrivers, thNew,
                   mPc, cleanupDriver, mOutcome>>

\* lines 275-285: the thread has returned in time; without URLs the call
\* returns "not found" through the finally clause
MainSearchDone ==
    /\ mPc = "await"
    /\ thPc = "done"
    /\ IF mUrls = 0
       THEN mPc' = "cleanup" /\ mOutcome' = "not_found"
       ELSE mPc' = "extract" /\ UNCHANGED mOutcome
    /\ UNCHANGED <<parseVars, articleVars, scorerVars, toolVars, coordVars, crawlVars,
                   zSources, zKeywordOk, driver, openDrivers, createdDrivers, thPc,
                   thIdx, thNew, mUrls, cleanupDriver>>

\* lines 275-278, 300-305: wait_for gives up after 120 seconds; the thread is
\* not stopped
MainTimeout ==
    /\ mPc = "await"
    /\ thPc # "done"
    /\ mPc' = "cleanup"
    /\ mOutcome' = "timeout"
    /\ UNCHANGED <<parseVars, articleVars, scorerVars, toolVars, coordVars, crawlVars,
                   zSources, zKeywordOk, driver, openDrivers, createdDrivers, thPc,
                   thIdx, thNew, mUrls, cleanupDriver>>

\* lines 288-298: the sequential extraction, scrape_article on every URL with
\* the driver of the search (extract_with_selenium makes one when there is
\* none, scraper.py 544-545); the search thread has ended
MainExtract ==
    /\ mPc = "extract"
    /\ IF driver = 0
       THEN \E ok \in BOOLEAN :
               IF ok
               THEN /\ createdDrivers' = createdDrivers + 1
                    /\ openDrivers' = openDrivers \cup {createdDrivers + 1}
                    /\ driver' = createdDrivers + 1
               ELSE UNCHANGED <<createdDrivers, openDrivers, driver>>
       ELSE UNCHANGED <<createdDrivers, openDrivers, driver>>
    /\ mUrls' = 0
    /\ mPc' = "cleanup"
    /\ mOutcome' = "success"
    /\ UNCHANGED <<parseVars, articleVars, scorerVars, toolVars, coordVars, crawlVars,
                   zSources, zKeywordOk, thPc, thIdx, thNew, cleanupDriver>>

\* cleanup(), line 728: `if self.driver`; without a driver cleanup() is over
\* and analyze_news_async returns
CleanupCheck ==
    /\ mPc = "cleanup"
    /\ mPc' = IF driver = 0 THEN "done" ELSE "quit"
    /\ UNCHANGED <<parseVars, articleVars, scorerVars, toolVars, coordVars, crawlVars,
                   zSources, zKeywordOk, driver, openDrivers, createdDrivers, thPc,
                   thIdx, thNew, mUrls, cleanupDriver, mOutcome>>

\* cleanup(), line 730: self.driver.quit() closes the driver, or raises, which
\* is logged (lines 733-734) and leaves self.driver as it is
CleanupQuit ==
    /\ mPc = "quit"
    /\ cleanupDriver' = driver
    /\ \E ok \in BOOLEAN :
          IF ok
          THEN openDrivers' = openDrivers \ {driver} /\ mPc' = "clear"
          ELSE UNCHANGED openDrivers /\ mPc' = "done"
    /\ UNCHANGED <<parseVars, articleVars, scorerVars, toolVars, coordVars, crawlVars,
                   zSources, zKeywordOk, driver, createdDrivers, thPc, thIdx, thNew,
                   mUrls, mOutcome>>

\* cleanup(), line 731: `self.driver = None`, and analyze_news_async returns
CleanupClear ==
    /\ mPc = "clear"
    /\ driver' = 0
    /\ mPc' = "done"
    /\ UNCHANGED <<parseVars, articleVars, scorerVars, toolVars, coordVars, crawlVars,
                   zSources, zKeywordOk, openDrivers, createdDrivers, thPc, thIdx,
                   thNew, mUrls, cleanupDriver, mOutcome>>

SeleniumNext ==
    \/ MainStart
    \/ ThreadValidate
    \/ ThreadCheck
    \/ ThreadCreate
    \/ ThreadAssign
    \/ ThreadUse
    \/ MainSearchDone
    \/ MainTimeout
    \/ MainExtract
    \/ CleanupCheck
    \/ CleanupQuit
    \/ CleanupClear

SpecSelenium == SeleniumInit /\ [][SeleniumNext]_vars

\* analyze_news_async has returned after the search timeout and cleanup()
TimedOutAndCleaned == mPc = "done" /\ mOutcome = "timeout"

\* C28: after the search timeout has fired and cleanup() has run, the search
\* thread neither creates nor keeps a WebDriver: once analyze_news_async has
\* returned, no driver of the session is open, except one whose quit() was
\* called by cleanup() and raised.
C28_NoDriverAfterTimeout ==
    TimedOutAndCleaned => openDrivers \subseteq {cleanupDriver}

(***************************************************************************)
(* SpecParse: _parse_keyword_operators on every keyword of the             *)
(* enumeration and on a few longer ones.                                   *)
(***************************************************************************)
KwAOrB == <<"a"," ","o","r"," ","b">>
KwBarOnly == <<"a"," ","|","|">>
KwPadded == <<" ","a","b"," ">>

SampleKeywords == {KwWordOr, KwAOrB, KwOr2, KwBarOnly, KwPadded}

ParseInputs == StringsUpTo(MaxKwLen) \cup SampleKeywords

NoParse == [type |-> "none", keywords |-> <<>>]

ParseInit ==
    /\ pKeyword \in ParseInputs
    /\ pResult = NoParse
    /\ pPc = "call"
    /\ CoordIdle
    /\ CrawlIdle
    /\ ArticleIdle
    /\ ScorerIdle
    /\ ToolIdle
    /\ SeleniumIdle

ParseCall ==
    /\ pPc = "call"
    /\ pResult' = _parse_keyword_operators(pKeyword)
    /\ pPc' = "done"
    /\ UNCHANGED <<pKeyword, articleVars, scorerVars, toolVars, seleniumVars, coordVars,
                   crawlVars>>

ParseNext == ParseCall

SpecParse == ParseInit /\ [][ParseNext]_vars

\* the separators of the contract: "||", or the word OR in either case between
\* two spaces; the value is the length of the separator at position i, or 0
SeparatorAt(s, i) ==
    IF MatchesAt(s, i, <<"|", "|">>) THEN 2
    ELSE IF /\ i + 3 <= Len(s)
            /\ s[i] = " "
            /\ Upper(s[i + 1]) = "O"
            /\ Upper(s[i + 2]) = "R"
            /\ s[i + 3] = " "
         THEN 4
         ELSE 0

\* the segments between the separators, from position i on, cur being the
\* segment collected so far
RECURSIVE Segments(_, _, _)
Segments(s, i, cur) ==
    IF i > Len(s) THEN <<cur>>
    ELSE IF SeparatorAt(s, i) > 0
         THEN <<cur>> \o Segments(s, i + SeparatorAt(s, i), <<>>)
         ELSE Segments(s, i + 1, Append(cur, s[i]))

\* what the contract prescribes for a keyword (surrounding blanks of the input
\* are not held against the function)
Prescribed(kw) ==
    LET segs == StripNonEmpty(Segments(kw, 1, <<>>)) IN
    IF Len(segs) >= 2
    THEN [type |-> "or", keywords |-> segs]
    ELSE [type |-> "single", keywords |-> <<Strip(kw)>>]

\* C10: _parse_keyword_operators returns type 'or' with the trimmed segments in
\* order for a keyword that holds '||' or ' OR ' (in either case) with at least
\* 2 non-empty segments, and type 'single' with the input as only keyword for
\* every other string, also when 'or' occurs inside a word or when a separator
\* leaves fewer than 2 non-empty segments.
C10_ParseContract ==
    pPc = "done" => pResult = Prescribed(pKeyword)

Next == PlainNext \/ OrPathNext

Spec == Init /\ [][Next]_vars

====
